---- MODULE Spec2Model ----
(***************************************************************************)
(* Model of the karaoke pipeline: the file-backed CacheManager             *)
(* (src/karaoke/cache.py), the five stage functions that consult it        *)
(* (audio_source.py, lyrics.py, separate.py, subtitles.py, video.py) and   *)
(* the orchestrator KaraokePipeline (src/karaoke/pipeline.py) in its       *)
(* blocking (run) and streaming (run_streaming) modes.                     *)
(***************************************************************************)
EXTENDS Integers, Sequences, FiniteSets, TLC

\* ------------------------------------------------------------------ bounds
MaxRuns == 2
MaxEnv == 2

\* a song is <<track, artist>>: two songs of the same title by two artists;
\* NoSong stands for "no such component"
Songs == {<<1, 1>>, <<1, 2>>}
Tracks == {s[1] : s \in Songs}
NoSong == <<0, 0>>

\* --------------------------------------------------- config.py cache flags
ENABLE_AUDIO_CACHE == FALSE
ENABLE_STEMS_CACHE == TRUE
ENABLE_LYRICS_CACHE == FALSE
ENABLE_SUBTITLES_CACHE == FALSE
ENABLE_VIDEO_CACHE == FALSE

Categories == {"audio", "stems", "lyrics", "subtitles", "videos"}

\* ------------------------------------------------------------ file system
\* A path is <<kind, track, artist>>.  File names follow the code: the
\* downloaded audio is named after the video title, the stems after the
\* audio file, the .lrc after the sanitized track title only, the .ass
\* after the .lrc, the videos after "artist - track".
NoPath == <<"none", 0, 0>>
DownloadPath(song) == <<"download", song[1], song[2]>>
UploadPath(song) == <<"upload", song[1], song[2]>>
InstrumentalPath(audio) ==
    <<IF audio[1] = "upload" THEN "inst_upload" ELSE "inst_download", audio[2], audio[3]>>
VocalsPath(audio) ==
    <<IF audio[1] = "upload" THEN "voc_upload" ELSE "voc_download", audio[2], audio[3]>>
LrcPath(track) == <<"lrc", track, 0>>
AssPath(lrc) == <<"ass", lrc[2], 0>>
OutputPath(song) == <<"video", song[1], song[2]>>
FullOutputPath(song) == <<"video_full", song[1], song[2]>>

AudioPaths == {DownloadPath(s) : s \in Songs} \cup {UploadPath(s) : s \in Songs}
Paths ==
    AudioPaths
    \cup {InstrumentalPath(p) : p \in AudioPaths}
    \cup {VocalsPath(p) : p \in AudioPaths}
    \cup {LrcPath(t) : t \in Tracks}
    \cup {AssPath(LrcPath(t)) : t \in Tracks}
    \cup {OutputPath(s) : s \in Songs}
    \cup {FullOutputPath(s) : s \in Songs}

\* The bytes of a file, abstracted to what they were made from: the song
\* whose sound they carry, which part of the sound, and the song whose
\* lyrics they carry.
Absent == [snd |-> NoSong, part |-> "none", txt |-> NoSong]
AudioBytes(song) == [snd |-> song, part |-> "mix", txt |-> NoSong]
StemBytes(audio, part) == [snd |-> audio.snd, part |-> part, txt |-> NoSong]
LrcBytes(song) == [snd |-> NoSong, part |-> "none", txt |-> song]
AssBytes(lrc) == [snd |-> NoSong, part |-> "ass", txt |-> lrc.txt]
VideoBytes(audio, ass) == [snd |-> audio.snd, part |-> audio.part, txt |-> ass.txt]

Exists(dsk, p) == p \in DOMAIN dsk /\ dsk[p] # Absent

\* ------------------------------------------------------------- exceptions
NoExc == [kind |-> "none", msg |-> "none"]
Exc(kind, msg) == [kind |-> kind, msg |-> msg]
Raised(r) == r.exc # NoExc

\* I/O faults the environment can inject into one cache operation
\* (only where the operation takes place: a disabled cache does no I/O)
LookupFaults(enabled) ==
    IF enabled THEN {"none", "input_unreadable", "index_unreadable", "unlink_denied"}
    ELSE {"none"}
StoreFaults(enabled) ==
    IF enabled THEN {"none", "input_unreadable", "index_unwritable"} ELSE {"none"}

\* ------------------------------------------------------------ cache index
\* One JSON file per key in the directory of its category.  An entry is the
\* parsed shape of that file: "ok" is an object holding the path fields,
\* "notjson" does not parse, "notobject" parses to a list/string/number,
\* "nokey" is an object lacking a path field, "badpath" holds a path field
\* that is not a string (null).
Shapes == {"ok", "notjson", "notobject", "nokey", "badpath"}
CorruptShapes == Shapes \ {"ok"}
NoEntry == [shape |-> "none", p1 |-> NoPath, p2 |-> NoPath]
None == <<NoPath, NoPath>>

\* sha256 is modelled as collision free: a digest is its tagged preimage
get_content_hash(content) == [sha256 |-> content]
UrlText(src, song) == [snd |-> song, part |-> src, txt |-> NoSong]
TrackArtistText(song) == [snd |-> NoSong, part |-> "track|artist", txt |-> song]
VideoParams(audioHash, subsHash) ==
    [snd |-> audioHash.sha256.snd, part |-> audioHash.sha256.part, txt |-> subsHash.sha256.txt]

AudioContents ==
    {AudioBytes(s) : s \in Songs} \cup {StemBytes(AudioBytes(s), "inst") : s \in Songs}
KeysOf(cat) ==
    CASE cat = "audio" ->
           {get_content_hash(UrlText(src, s)) : src \in {"youtube_url", "search"}, s \in Songs}
      [] cat = "stems" -> {get_content_hash(c) : c \in AudioContents}
      [] cat = "lyrics" -> {get_content_hash(TrackArtistText(s)) : s \in Songs}
      [] cat = "subtitles" -> {get_content_hash(LrcBytes(s)) : s \in Songs}
      [] cat = "videos" ->
           {get_content_hash(VideoParams(get_content_hash(a), get_content_hash(AssBytes(LrcBytes(s)))))
               : a \in AudioContents, s \in Songs}
IndexFiles == UNION {{<<cat, k>> : k \in KeysOf(cat)} : cat \in Categories}

\* CacheManager._get_file_hash
get_file_hash(dsk, path, fault) ==
    IF ~Exists(dsk, path)
    THEN [key |-> get_content_hash(Absent), exc |-> Exc("FileNotFoundError", "Cannot hash non-existent file")]
    ELSE IF fault = "input_unreadable"
    THEN [key |-> get_content_hash(Absent), exc |-> Exc("RuntimeError", "Failed to read file for hashing")]
    ELSE [key |-> get_content_hash(dsk[path]), exc |-> NoExc]

\* cache_file.unlink()
Unlink(idx, cat, key, fault) ==
    IF fault = "unlink_denied"
    THEN [ret |-> None, exc |-> Exc("PermissionError", "unlink"), idx |-> idx]
    ELSE [ret |-> None, exc |-> NoExc, idx |-> [idx EXCEPT ![<<cat, key>>] = NoEntry]]

\* Faulty variant of CachedEntry: a stale entry is reported as a miss but left in place.
CachedEntry_NoHeal(idx, dsk, cat, key, two, fault) ==
    LET e == idx[<<cat, key>>] IN
    IF e.shape = "none" THEN [ret |-> None, exc |-> NoExc, idx |-> idx]
    ELSE IF fault = "index_unreadable"
    THEN [ret |-> None, exc |-> Exc("PermissionError", "read_text"), idx |-> idx]
    ELSE CASE e.shape = "notjson" -> Unlink(idx, cat, key, fault)
           [] e.shape = "nokey" -> Unlink(idx, cat, key, fault)
           [] e.shape = "notobject" ->
                [ret |-> None, exc |-> Exc("TypeError", "indices must be integers"), idx |-> idx]
           [] e.shape = "badpath" ->
                [ret |-> None, exc |-> Exc("TypeError", "expected str, not NoneType"), idx |-> idx]
           [] e.shape = "ok" ->
                IF Exists(dsk, e.p1) /\ (two => Exists(dsk, e.p2))
                THEN [ret |-> <<e.p1, e.p2>>, exc |-> NoExc, idx |-> idx]
                ELSE [ret |-> None, exc |-> NoExc, idx |-> idx]

\* The body shared by the five get_cached_* methods from cache_file.exists()
\* on; `two` says whether the entry names two artifacts (stems) or one.
CachedEntry(idx, dsk, cat, key, two, fault) ==
    LET e == idx[<<cat, key>>] IN
    IF e.shape = "none" THEN [ret |-> None, exc |-> NoExc, idx |-> idx]
    ELSE IF fault = "index_unreadable"
    THEN [ret |-> None, exc |-> Exc("PermissionError", "read_text"), idx |-> idx]
    ELSE CASE e.shape = "notjson" -> Unlink(idx, cat, key, fault)
           [] e.shape = "nokey" -> Unlink(idx, cat, key, fault)
           [] e.shape = "notobject" ->
                [ret |-> None, exc |-> Exc("TypeError", "indices must be integers"), idx |-> idx]
           [] e.shape = "badpath" ->
                [ret |-> None, exc |-> Exc("TypeError", "expected str, not NoneType"), idx |-> idx]
           [] e.shape = "ok" ->
                IF Exists(dsk, e.p1) /\ (two => Exists(dsk, e.p2))
                THEN [ret |-> <<e.p1, e.p2>>, exc |-> NoExc, idx |-> idx]
                ELSE Unlink(idx, cat, key, fault)

Miss(idx) == [ret |-> None, exc |-> NoExc, idx |-> idx]
Failing(idx, exc) == [ret |-> None, exc |-> exc, idx |-> idx]

get_cached_audio(idx, dsk, url, fault) ==
    IF ~ENABLE_AUDIO_CACHE THEN Miss(idx)
    ELSE CachedEntry(idx, dsk, "audio", get_content_hash(url), FALSE, fault)

get_cached_stems(idx, dsk, audio_path, fault) ==
    IF ~ENABLE_STEMS_CACHE THEN Miss(idx)
    ELSE LET h == get_file_hash(dsk, audio_path, fault) IN
         IF h.exc # NoExc THEN Failing(idx, h.exc)
         ELSE CachedEntry(idx, dsk, "stems", h.key, TRUE, fault)

\* CacheManager.get_cached_lyrics under a given value of config.ENABLE_LYRICS_CACHE
CacheManager_get_cached_lyrics(enabled, idx, dsk, song, fault) ==
    IF ~enabled THEN Miss(idx)
    ELSE CachedEntry(idx, dsk, "lyrics", get_content_hash(TrackArtistText(song)), FALSE, fault)

get_cached_lyrics(idx, dsk, song, fault) ==
    CacheManager_get_cached_lyrics(ENABLE_LYRICS_CACHE, idx, dsk, song, fault)

get_cached_subtitles(idx, dsk, lrc_path, fault) ==
    IF ~ENABLE_SUBTITLES_CACHE THEN Miss(idx)
    ELSE LET h == get_file_hash(dsk, lrc_path, fault) IN
         IF h.exc # NoExc THEN Failing(idx, h.exc)
         ELSE CachedEntry(idx, dsk, "subtitles", h.key, FALSE, fault)

\* CacheManager.get_cached_video under a given value of config.ENABLE_VIDEO_CACHE
CacheManager_get_cached_video(enabled, idx, dsk, audio_path, subtitles_path, fault) ==
    IF ~enabled THEN Miss(idx)
    ELSE LET ha == get_file_hash(dsk, audio_path, fault)
             hs == get_file_hash(dsk, subtitles_path, fault) IN
         IF ha.exc # NoExc THEN Failing(idx, ha.exc)
         ELSE IF hs.exc # NoExc THEN Failing(idx, hs.exc)
         ELSE CachedEntry(idx, dsk, "videos",
                          get_content_hash(VideoParams(ha.key, hs.key)), FALSE, fault)

get_cached_video(idx, dsk, audio_path, subtitles_path, fault) ==
    CacheManager_get_cached_video(ENABLE_VIDEO_CACHE, idx, dsk, audio_path, subtitles_path, fault)

\* Faulty variant of WriteEntry: an existing index file is left as it is.
WriteEntry_KeepOld(idx, cat, key, p1, p2, fault) ==
    IF fault = "index_unwritable"
    THEN [wrote |-> FALSE, exc |-> Exc("PermissionError", "write_text"), idx |-> idx]
    ELSE [wrote |-> TRUE, exc |-> NoExc,
          idx |-> IF idx[<<cat, key>>].shape # "none" THEN idx
                  ELSE [idx EXCEPT ![<<cat, key>>] = [shape |-> "ok", p1 |-> p1, p2 |-> p2]]]

\* cache_file.write_text(json.dumps(cache_data)): overwrites the file of the key
WriteEntry(idx, cat, key, p1, p2, fault) ==
    IF fault = "index_unwritable"
    THEN [wrote |-> FALSE, exc |-> Exc("PermissionError", "write_text"), idx |-> idx]
    ELSE [wrote |-> TRUE, exc |-> NoExc,
          idx |-> [idx EXCEPT ![<<cat, key>>] = [shape |-> "ok", p1 |-> p1, p2 |-> p2]]]

Skipped(idx) == [wrote |-> FALSE, exc |-> NoExc, idx |-> idx]
NotStored(idx, exc) == [wrote |-> FALSE, exc |-> exc, idx |-> idx]

cache_audio(idx, dsk, url, audio_path, fault) ==
    IF ~ENABLE_AUDIO_CACHE THEN Skipped(idx)
    ELSE LET h == get_file_hash(dsk, audio_path, fault) IN
         IF h.exc # NoExc THEN NotStored(idx, h.exc)
         ELSE WriteEntry(idx, "audio", get_content_hash(url), audio_path, NoPath, fault)

cache_stems(idx, dsk, audio_path, instrumental_path, vocals_path, fault) ==
    IF ~ENABLE_STEMS_CACHE THEN Skipped(idx)
    ELSE LET h == get_file_hash(dsk, audio_path, fault) IN
         IF h.exc # NoExc THEN NotStored(idx, h.exc)
         ELSE WriteEntry(idx, "stems", h.key, instrumental_path, vocals_path, fault)

\* CacheManager.cache_lyrics under a given value of config.ENABLE_LYRICS_CACHE
CacheManager_cache_lyrics(enabled, idx, dsk, song, lyrics_path, fault) ==
    IF ~enabled THEN Skipped(idx)
    ELSE LET h == IF Exists(dsk, lyrics_path) THEN get_file_hash(dsk, lyrics_path, fault)
                  ELSE [key |-> get_content_hash(Absent), exc |-> NoExc] IN
         IF h.exc # NoExc THEN NotStored(idx, h.exc)
         ELSE WriteEntry(idx, "lyrics", get_content_hash(TrackArtistText(song)),
                         lyrics_path, NoPath, fault)

cache_lyrics(idx, dsk, song, lyrics_path, fault) ==
    CacheManager_cache_lyrics(ENABLE_LYRICS_CACHE, idx, dsk, song, lyrics_path, fault)

cache_subtitles(idx, dsk, lrc_path, subtitles_path, fault) ==
    IF ~ENABLE_SUBTITLES_CACHE THEN Skipped(idx)
    ELSE LET h == get_file_hash(dsk, lrc_path, fault) IN
         IF h.exc # NoExc THEN NotStored(idx, h.exc)
         ELSE WriteEntry(idx, "subtitles", h.key, subtitles_path, NoPath, fault)

\* CacheManager.cache_video under a given value of config.ENABLE_VIDEO_CACHE
CacheManager_cache_video(enabled, idx, dsk, audio_path, subtitles_path, video_path, fault) ==
    IF ~enabled THEN Skipped(idx)
    ELSE LET ha == get_file_hash(dsk, audio_path, fault)
             hs == get_file_hash(dsk, subtitles_path, fault) IN
         IF ha.exc # NoExc THEN NotStored(idx, ha.exc)
         ELSE IF hs.exc # NoExc THEN NotStored(idx, hs.exc)
         ELSE WriteEntry(idx, "videos", get_content_hash(VideoParams(ha.key, hs.key)),
                         video_path, NoPath, fault)

cache_video(idx, dsk, audio_path, subtitles_path, video_path, fault) ==
    CacheManager_cache_video(ENABLE_VIDEO_CACHE, idx, dsk, audio_path, subtitles_path,
                             video_path, fault)

\* ---------------------------------------------------------- stage functions
\* What the stage functions catch around a cache call:
\* except (FileNotFoundError, RuntimeError)
CaughtByStage == {"FileNotFoundError", "RuntimeError"}

NoKey == <<"none", get_content_hash(Absent)>>
EntryAt(idx, k) == IF k \in DOMAIN idx THEN idx[k] ELSE NoEntry
ArtifactsMissing(dsk, e, two) ==
    e.shape = "ok" /\ ~(Exists(dsk, e.p1) /\ (two => Exists(dsk, e.p2)))

\* What one call of a stage function did (kept as history of the last call)
NoCall ==
    [fn |-> "none", k |-> NoKey,
     entryBefore |-> "none", artMissing |-> FALSE,
     lookedUp |-> FALSE, lkRet |-> None, lkExc |-> "none", entryAfterLookup |-> "none",
     hit |-> FALSE, invoked |-> FALSE, validated |-> FALSE, stored |-> FALSE,
     ret |-> None, exc |-> NoExc, cacheExc |-> FALSE,
     repeat |-> FALSE, prevRet |-> None]

\* Faulty variant of StageCall: the store is done before the collaborator's output is validated.
StageCall_StoreUnvalidated(fn, k, two, idx, dsk, pre, lk, cexc, dskOk, retOk, st) ==
    LET e == EntryAt(idx, k)
        base == [NoCall EXCEPT !.fn = fn, !.k = k,
                               !.entryBefore = e.shape,
                               !.artMissing = ArtifactsMissing(dsk, e, two)]
        looked == [base EXCEPT !.lookedUp = TRUE, !.lkRet = lk.ret, !.lkExc = lk.exc.kind,
                                !.entryAfterLookup = EntryAt(lk.idx, k).shape]
    IN
    IF pre # NoExc
    THEN [idx |-> idx, dsk |-> dsk, info |-> [base EXCEPT !.exc = pre]]
    ELSE IF Raised(lk) /\ lk.exc.kind \notin CaughtByStage
    THEN [idx |-> lk.idx, dsk |-> dsk,
          info |-> [looked EXCEPT !.exc = lk.exc, !.cacheExc = TRUE]]
    ELSE IF ~Raised(lk) /\ lk.ret # None
    THEN [idx |-> lk.idx, dsk |-> dsk, info |-> [looked EXCEPT !.hit = TRUE, !.ret = lk.ret]]
    ELSE IF Raised(st) /\ st.exc.kind \notin CaughtByStage
    THEN [idx |-> st.idx, dsk |-> dskOk,
          info |-> [looked EXCEPT !.invoked = TRUE, !.exc = st.exc, !.cacheExc = TRUE]]
    ELSE IF cexc # NoExc
    THEN [idx |-> st.idx, dsk |-> dsk,
          info |-> [looked EXCEPT !.invoked = TRUE, !.stored = st.wrote, !.exc = cexc]]
    ELSE [idx |-> st.idx, dsk |-> dskOk,
          info |-> [looked EXCEPT !.invoked = TRUE, !.validated = TRUE,
                                  !.stored = st.wrote, !.ret = retOk]]

\* The control flow shared by the five stage functions:
\*   pre-checks; try: lookup, return on hit / except (FileNotFoundError,
\*   RuntimeError): log; collaborator; validation; try: store / except
\*   (FileNotFoundError, RuntimeError): log; return the artifact.
\* k is the index file of the call's key, two whether the entry names two
\* artifacts, pre the exception of a failed pre-check, lk the lookup's result,
\* cexc the exception of the collaborator or of the validation of its output
\* (NoExc when both succeed), dskOk the disk after the collaborator succeeded,
\* retOk the artifact it made, st the store's result.
StageCall(fn, k, two, idx, dsk, pre, lk, cexc, dskOk, retOk, st) ==
    LET e == EntryAt(idx, k)
        base == [NoCall EXCEPT !.fn = fn, !.k = k,
                               !.entryBefore = e.shape,
                               !.artMissing = ArtifactsMissing(dsk, e, two)]
        looked == [base EXCEPT !.lookedUp = TRUE, !.lkRet = lk.ret, !.lkExc = lk.exc.kind,
                                !.entryAfterLookup = EntryAt(lk.idx, k).shape]
    IN
    IF pre # NoExc
    THEN [idx |-> idx, dsk |-> dsk, info |-> [base EXCEPT !.exc = pre]]
    ELSE IF Raised(lk) /\ lk.exc.kind \notin CaughtByStage
    THEN [idx |-> lk.idx, dsk |-> dsk,
          info |-> [looked EXCEPT !.exc = lk.exc, !.cacheExc = TRUE]]
    ELSE IF ~Raised(lk) /\ lk.ret # None
    THEN [idx |-> lk.idx, dsk |-> dsk, info |-> [looked EXCEPT !.hit = TRUE, !.ret = lk.ret]]
    ELSE IF cexc # NoExc
    THEN [idx |-> lk.idx, dsk |-> dsk, info |-> [looked EXCEPT !.invoked = TRUE, !.exc = cexc]]
    ELSE IF Raised(st) /\ st.exc.kind \notin CaughtByStage
    THEN [idx |-> st.idx, dsk |-> dskOk,
          info |-> [looked EXCEPT !.invoked = TRUE, !.validated = TRUE,
                                  !.exc = st.exc, !.cacheExc = TRUE]]
    ELSE [idx |-> st.idx, dsk |-> dskOk,
          info |-> [looked EXCEPT !.invoked = TRUE, !.validated = TRUE,
                                  !.stored = st.wrote, !.ret = retOk]]

\* Outcomes of an external collaborator: it succeeds, it raises, or it
\* returns something the stage function's validation rejects.
Outcomes == {"ok", "raise", "invalid"}

\* audio_source.download_from_youtube(url)
download_from_youtube(idx, dsk, src, song, lf, sf, outcome) ==
    LET url == UrlText(src, song)
        audio_path == DownloadPath(song)
        lk == get_cached_audio(idx, dsk, url, lf)
        dskOk == [dsk EXCEPT ![audio_path] = AudioBytes(song)]
        cexc == CASE outcome = "ok" -> NoExc
                  [] outcome = "raise" -> Exc("DownloadError", "collaborator failed")
                  [] outcome = "invalid" ->
                       Exc("RuntimeError", "no downloaded file path could be determined")
    IN StageCall("download_from_youtube", <<"audio", get_content_hash(url)>>, FALSE,
                 idx, dsk, NoExc, lk, cexc, dskOk, <<audio_path, NoPath>>,
                 cache_audio(lk.idx, dskOk, url, audio_path, sf))

\* lyrics.fetch_lrc(track, artist) under a given value of config.ENABLE_LYRICS_CACHE
lyrics_fetch_lrc(enabled, idx, dsk, song, lf, sf, outcome) ==
    LET lrc_path == LrcPath(song[1])
        lk == CacheManager_get_cached_lyrics(enabled, idx, dsk, song, lf)
        dskOk == [dsk EXCEPT ![lrc_path] = LrcBytes(song)]
        cexc == CASE outcome = "ok" -> NoExc
                  [] outcome = "raise" -> Exc("Exception", "collaborator failed")
                  [] outcome = "invalid" -> Exc("RuntimeError", "No synchronized lyrics found")
    IN StageCall("fetch_lrc", <<"lyrics", get_content_hash(TrackArtistText(song))>>, FALSE,
                 idx, dsk, NoExc, lk, cexc, dskOk, <<lrc_path, NoPath>>,
                 CacheManager_cache_lyrics(enabled, lk.idx, dskOk, song, lrc_path, sf))

\* lyrics.fetch_lrc(track, artist)
fetch_lrc(idx, dsk, song, lf, sf, outcome) ==
    lyrics_fetch_lrc(ENABLE_LYRICS_CACHE, idx, dsk, song, lf, sf, outcome)

\* separate.separate(audio_path)
separate(idx, dsk, audio_path, lf, sf, outcome) ==
    LET instrumental_path == InstrumentalPath(audio_path)
        vocals_path == VocalsPath(audio_path)
        lk == get_cached_stems(idx, dsk, audio_path, lf)
        dskOk == [dsk EXCEPT ![instrumental_path] = StemBytes(dsk[audio_path], "inst"),
                             ![vocals_path] = StemBytes(dsk[audio_path], "voc")]
        cexc == CASE outcome = "raise" \/ ~Exists(dsk, audio_path) ->
                       Exc("Exception", "collaborator failed")
                  [] outcome = "ok" -> NoExc
                  [] outcome = "invalid" ->
                       Exc("RuntimeError", "Instrumental or Vocals file not found after separation.")
        k == IF Exists(dsk, audio_path)
             THEN <<"stems", get_content_hash(dsk[audio_path])>> ELSE NoKey
    IN StageCall("separate", k, TRUE, idx, dsk, NoExc, lk, cexc, dskOk,
                 <<instrumental_path, vocals_path>>,
                 cache_stems(lk.idx, dskOk, audio_path, instrumental_path, vocals_path, sf))

\* subtitles.lrc_to_ass(lrc_path, output_path)
lrc_to_ass(idx, dsk, lrc_path, output_path, lf, sf, outcome) ==
    LET lk == get_cached_subtitles(idx, dsk, lrc_path, lf)
        dskOk == [dsk EXCEPT ![output_path] = AssBytes(dsk[lrc_path])]
        cexc == CASE ~Exists(dsk, lrc_path) -> Exc("FileNotFoundError", "lrc_path.read_text")
                  [] outcome = "ok" -> NoExc
                  [] outcome \in {"raise", "invalid"} -> Exc("Exception", "collaborator failed")
        k == IF Exists(dsk, lrc_path)
             THEN <<"subtitles", get_content_hash(dsk[lrc_path])>> ELSE NoKey
    IN StageCall("lrc_to_ass", k, FALSE, idx, dsk, NoExc, lk, cexc, dskOk,
                 <<output_path, NoPath>>,
                 cache_subtitles(lk.idx, dskOk, lrc_path, output_path, sf))

\* video.build_video(audio_path, ass_path, output_path) under a given value
\* of config.ENABLE_VIDEO_CACHE
video_build_video(enabled, idx, dsk, audio_path, ass_path, output_path, lf, sf, outcome) ==
    LET pre == IF ~Exists(dsk, audio_path) THEN Exc("FileNotFoundError", "Audio file not found")
               ELSE IF ~Exists(dsk, ass_path)
               THEN Exc("FileNotFoundError", "Subtitle file not found")
               ELSE NoExc
        lk == CacheManager_get_cached_video(enabled, idx, dsk, audio_path, ass_path, lf)
        dskOk == [dsk EXCEPT ![output_path] = VideoBytes(dsk[audio_path], dsk[ass_path])]
        cexc == CASE outcome = "ok" -> NoExc
                  [] outcome = "raise" -> Exc("RuntimeError", "ffprobe failed")
                  [] outcome = "invalid" -> Exc("RuntimeError", "ffmpeg failed with return code")
        k == IF pre = NoExc
             THEN <<"videos", get_content_hash(VideoParams(get_content_hash(dsk[audio_path]),
                                                           get_content_hash(dsk[ass_path])))>>
             ELSE NoKey
    IN StageCall("build_video", k, FALSE, idx, dsk, pre, lk, cexc, dskOk,
                 <<output_path, NoPath>>,
                 CacheManager_cache_video(enabled, lk.idx, dskOk, audio_path, ass_path,
                                          output_path, sf))

\* video.build_video(audio_path, ass_path, output_path)
build_video(idx, dsk, audio_path, ass_path, output_path, lf, sf, outcome) ==
    video_build_video(ENABLE_VIDEO_CACHE, idx, dsk, audio_path, ass_path, output_path,
                      lf, sf, outcome)

\* audio_source.validate_audio_file(path)
validate_audio_file(dsk, path) ==
    IF ~Exists(dsk, path) THEN [ret |-> None, exc |-> Exc("FileNotFoundError", "Audio file not found")]
    ELSE [ret |-> <<path, NoPath>>, exc |-> NoExc]

\* ------------------------------------------------------------ orchestrator
\* Faulty variant of StageOrder: the separation is called before the lyrics are fetched.
StageOrder_SeparationFirst == <<"audio", "separation", "lyrics", "subtitles", "video">>

\* KaraokePipeline.run / run_streaming call the stages in this order
StageOrder == <<"audio", "lyrics", "separation", "subtitles", "video">>
Stages == {"audio", "lyrics", "separation", "subtitles", "video"}
\* history is kept per call site: build_video is called twice in the video stage
CallSites == Stages \cup {"video_full"}
StageIndex(stage) == CHOOSE i \in 1..Len(StageOrder) : StageOrder[i] = stage
IsLastStage(stage) == StageIndex(stage) = Len(StageOrder)
NextStage(stage) == StageOrder[StageIndex(stage) + 1]

Modes == {"run", "run_streaming"}
Sources == {"youtube_url", "file_path"}

VARIABLES
    disk,            \* path -> bytes (Absent when there is no such file)
    index,           \* index file <<category, key>> -> entry
    pc,              \* [at, stage]: where the current run stands
    run,             \* [mode, src, song]: the inputs of the current run
    loc,             \* the paths the run holds: audio, lrc, instrumental, ass
    events,          \* the notifications run_streaming has yielded
    result,          \* what run() returned or raised
    report,          \* the terminal failure report as the caller sees it
    failed,          \* [stage, exc] of the stage that raised, or NoFailure
    started,         \* stages started in this run, in order
    resolved,        \* stages that returned successfully in this run, in order
    invocations,     \* call site -> collaborator invocations in this run
    call,            \* history: the last stage-function call
    prev,            \* history: call site -> its previous call
    lastStore,       \* history: index file -> artifact of the last store that wrote it
    validatedPaths,  \* history: artifacts made by executions that passed validation
    written,         \* history: index files written in this run
    runs, env        \* counters bounding the model

\* the state of the pipeline runs
pipelineVars == <<disk, index, pc, run, loc, events, result, report, failed, started, resolved,
                  invocations, call, prev, lastStore, validatedPaths, written, runs, env>>

VARIABLES
    cfile,           \* one index file seen at the level of the file system calls
    cart,            \* the audio paths whose two stem files exist
    cin,             \* process -> the audio path its separate() call was given
    proc             \* process -> where its separate() call stands
concurrentVars == <<cfile, cart, cin, proc>>

VARIABLES
    areas,           \* cache category -> its directory: exists, index files in it
    cleared          \* history: the last clear_cache call
clearVars == <<areas, cleared>>

VARIABLES
    lrc,             \* the transcript handed to a parser, and the converter used
    lyr,             \* what the parser made of it
    ass              \* the caption events the converter wrote
lyricsVars == <<lrc, lyr, ass>>

\* One time stamp text, what it parses to, the time code printed from that
\* and what the printed code parses to
VARIABLES time_str, seconds, ass_time, again
timecodeVars == <<time_str, seconds, ass_time, again>>

\* Two contents or two files, and the fingerprints taken of them
VARIABLES content, digest
fingerprintVars == <<content, digest>>

\* The lyrics files of one song in the output directory, what the lyrics
\* providers have of it, the last fetch and the number of fetches made
VARIABLES lrc_files, providers, fetched, fetches
fetchVars == <<lrc_files, providers, fetched, fetches>>

\* The audio files in the output directory and one call of download_audio
VARIABLES audio_dir, dl
downloadVars == <<audio_dir, dl>>

\* The attributes of the module karaoke.config and one call of main()
VARIABLES settings, cli
mainVars == <<settings, cli>>

\* The value of config.ENABLE_LYRICS_CACHE, the lyrics directory, the lyrics
\* index files, the last call of fetch_lrc and the number of calls made
VARIABLES lyrics_cache, lrc_dir, lrc_index, got, gets
hitVars == <<lyrics_cache, lrc_dir, lrc_index, got, gets>>

\* The value of config.ENABLE_VIDEO_CACHE, the files and the video index files,
\* one run of the pipeline from its video step on and the number of runs
VARIABLES video_cache, out_dir, video_index, vrun, vruns
videoVars == <<video_cache, out_dir, video_index, vrun, vruns>>

\* KaraokeCreator.processing_results and one call of main() of src/main.py
VARIABLES processing_results, kc
creatorVars == <<processing_results, kc>>

unitVars == <<timecodeVars, fingerprintVars, fetchVars, downloadVars, mainVars, hitVars, videoVars, creatorVars>>

vars == <<pipelineVars, concurrentVars, clearVars, lyricsVars, unitVars>>

\* the values of the variables a specification does not use
PipelineIdle ==
    /\ disk = <<>> /\ index = <<>> /\ pc = <<>> /\ run = <<>> /\ loc = <<>> /\ events = <<>>
    /\ result = <<>> /\ report = <<>> /\ failed = <<>> /\ started = <<>> /\ resolved = <<>>
    /\ invocations = <<>> /\ call = <<>> /\ prev = <<>> /\ lastStore = <<>>
    /\ validatedPaths = <<>> /\ written = <<>> /\ runs = 0 /\ env = 0
ConcurrentIdle == cfile = <<>> /\ cart = <<>> /\ cin = <<>> /\ proc = <<>>
ClearIdle == areas = <<>> /\ cleared = <<>>
LyricsIdle == lrc = <<>> /\ lyr = <<>> /\ ass = <<>>
TimecodeIdle == time_str = <<>> /\ seconds = <<>> /\ ass_time = <<>> /\ again = <<>>
FingerprintIdle == content = <<>> /\ digest = <<>>
FetchIdle == lrc_files = <<>> /\ providers = <<>> /\ fetched = <<>> /\ fetches = 0
DownloadIdle == audio_dir = <<>> /\ dl = <<>>
MainIdle == settings = <<>> /\ cli = <<>>
HitIdle == lyrics_cache = <<>> /\ lrc_dir = <<>> /\ lrc_index = <<>> /\ got = <<>> /\ gets = 0
VideoIdle == video_cache = <<>> /\ out_dir = <<>> /\ video_index = <<>> /\ vrun = <<>> /\ vruns = 0
CreatorIdle == processing_results = <<>> /\ kc = <<>>
UnitIdle == TimecodeIdle /\ FingerprintIdle /\ FetchIdle /\ DownloadIdle /\ MainIdle /\ HitIdle /\ VideoIdle /\ CreatorIdle
\* what the steps on time codes and on fingerprints leave alone
coreVars == <<pipelineVars, concurrentVars, clearVars, lyricsVars>>
CoreIdle == PipelineIdle /\ ConcurrentIdle /\ ClearIdle /\ LyricsIdle
timecodeFrame == <<coreVars, fingerprintVars, fetchVars, downloadVars, mainVars, hitVars, videoVars, creatorVars>>
TimecodeFrameIdle == CoreIdle /\ FingerprintIdle /\ FetchIdle /\ DownloadIdle /\ MainIdle /\ HitIdle /\ VideoIdle /\ CreatorIdle
fingerprintFrame == <<coreVars, timecodeVars, fetchVars, downloadVars, mainVars, hitVars, videoVars, creatorVars>>
FingerprintFrameIdle == CoreIdle /\ TimecodeIdle /\ FetchIdle /\ DownloadIdle /\ MainIdle /\ HitIdle /\ VideoIdle /\ CreatorIdle
fetchFrame == <<coreVars, timecodeVars, fingerprintVars, downloadVars, mainVars, hitVars, videoVars, creatorVars>>
FetchFrameIdle == CoreIdle /\ TimecodeIdle /\ FingerprintIdle /\ DownloadIdle /\ MainIdle /\ HitIdle /\ VideoIdle /\ CreatorIdle
downloadFrame == <<coreVars, timecodeVars, fingerprintVars, fetchVars, mainVars, hitVars, videoVars, creatorVars>>
DownloadFrameIdle == CoreIdle /\ TimecodeIdle /\ FingerprintIdle /\ FetchIdle /\ MainIdle /\ HitIdle /\ VideoIdle /\ CreatorIdle
mainFrame == <<coreVars, timecodeVars, fingerprintVars, fetchVars, downloadVars, hitVars, videoVars, creatorVars>>
MainFrameIdle == CoreIdle /\ TimecodeIdle /\ FingerprintIdle /\ FetchIdle /\ DownloadIdle /\ HitIdle /\ VideoIdle /\ CreatorIdle
hitFrame == <<coreVars, timecodeVars, fingerprintVars, fetchVars, downloadVars, mainVars, videoVars, creatorVars>>
HitFrameIdle == CoreIdle /\ TimecodeIdle /\ FingerprintIdle /\ FetchIdle /\ DownloadIdle /\ MainIdle /\ VideoIdle /\ CreatorIdle
videoFrame == <<coreVars, timecodeVars, fingerprintVars, fetchVars, downloadVars, mainVars, hitVars, creatorVars>>
VideoFrameIdle == CoreIdle /\ TimecodeIdle /\ FingerprintIdle /\ FetchIdle /\ DownloadIdle /\ MainIdle /\ HitIdle /\ CreatorIdle
creatorFrame == <<coreVars, timecodeVars, fingerprintVars, fetchVars, downloadVars, mainVars, hitVars, videoVars>>
CreatorFrameIdle == CoreIdle /\ TimecodeIdle /\ FingerprintIdle /\ FetchIdle /\ DownloadIdle /\ MainIdle /\ HitIdle /\ VideoIdle

At(a, stage) == [at |-> a, stage |-> stage]
NoFailure == [stage |-> "none", exc |-> NoExc]
NoResult == [status |-> "none", exc |-> NoExc, paths |-> None]
NoReport == [stage |-> "absent", kind |-> "absent", message |-> "absent"]
NoLoc == [audio_path |-> NoPath, lrc_path |-> NoPath, instrumental_path |-> NoPath,
          ass_path |-> NoPath]
NoPrev == [ok |-> FALSE, args |-> <<>>, ret |-> None, envAt |-> 0]
NoRun == [mode |-> "none", src |-> "none", song |-> NoSong]

Init ==
    /\ disk = [p \in Paths |-> IF p[1] = "upload" THEN AudioBytes(<<p[2], p[3]>>) ELSE Absent]
    /\ index = [f \in IndexFiles |-> NoEntry]
    /\ pc = At("Idle", "none")
    /\ run = NoRun
    /\ loc = NoLoc
    /\ events = <<>>
    /\ result = NoResult
    /\ report = NoReport
    /\ failed = NoFailure
    /\ started = <<>>
    /\ resolved = <<>>
    /\ invocations = [c \in CallSites |-> 0]
    /\ call = NoCall
    /\ prev = [c \in CallSites |-> NoPrev]
    /\ lastStore = [f \in IndexFiles |-> None]
    /\ validatedPaths = {}
    /\ written = {}
    /\ runs = 0
    /\ env = 0
    /\ ConcurrentIdle /\ ClearIdle /\ LyricsIdle /\ UnitIdle

Terminal == {"Completed", "Failed"}

\* KaraokePipeline.__init__ followed by the call of run() or run_streaming()
StartRun(mode, src, song) ==
    /\ pc.at \in Terminal \cup {"Idle"}
    /\ runs < MaxRuns
    /\ runs' = runs + 1
    /\ run' = [mode |-> mode, src |-> src, song |-> song]
    /\ pc' = IF mode = "run" THEN At("stage", StageOrder[1]) ELSE At("yield_start", "pipeline")
    /\ loc' = NoLoc
    /\ events' = <<>>
    /\ result' = NoResult
    /\ report' = NoReport
    /\ failed' = NoFailure
    /\ started' = <<>>
    /\ resolved' = <<>>
    /\ invocations' = [c \in CallSites |-> 0]
    /\ written' = {}
    /\ call' = NoCall
    /\ UNCHANGED <<disk, index, prev, lastStore, validatedPaths, env>>
    /\ UNCHANGED <<concurrentVars, clearVars, lyricsVars, unitVars>>

\* Faulty variant of YieldStart: the stage's start notification is left out
YieldStart_Silent ==
    /\ run.mode = "run_streaming"
    /\ \/ /\ pc = At("yield_start", "pipeline")
          /\ events' = Append(events, <<"pipeline", "start">>)
          /\ pc' = At("yield_stage_start", StageOrder[1])
       \/ /\ pc.at = "yield_stage_start"
          /\ events' = events
          /\ pc' = At("stage", pc.stage)
    /\ UNCHANGED <<disk, index, run, loc, result, report, failed, started, resolved, invocations,
                   call, prev, lastStore, validatedPaths, written, runs, env>>
    /\ UNCHANGED <<concurrentVars, clearVars, lyricsVars, unitVars>>

\* run_streaming: yield _sse("start", ...) and yield _sse("<stage>:start", ...)
YieldStart ==
    /\ run.mode = "run_streaming"
    /\ \/ /\ pc = At("yield_start", "pipeline")
          /\ events' = Append(events, <<"pipeline", "start">>)
          /\ pc' = At("yield_stage_start", StageOrder[1])
       \/ /\ pc.at = "yield_stage_start"
          /\ events' = Append(events, <<pc.stage, "start">>)
          /\ pc' = At("stage", pc.stage)
    /\ UNCHANGED <<disk, index, run, loc, result, report, failed, started, resolved, invocations,
                   call, prev, lastStore, validatedPaths, written, runs, env>>
    /\ UNCHANGED <<concurrentVars, clearVars, lyricsVars, unitVars>>

ArtifactsExist(dsk, ret) ==
    /\ ret # None
    /\ Exists(dsk, ret[1])
    /\ ret[2] # NoPath => Exists(dsk, ret[2])
PathsOf(ret) == {ret[1], ret[2]} \ {NoPath}

\* Faulty variant of Fail: the orchestrator calls the stage again after it raised.
Fail_Retry(stage, exc) ==
    /\ failed' = [stage |-> stage, exc |-> exc]
    /\ resolved' = resolved
    /\ loc' = loc
    /\ pc' = pc
    /\ result' = result
    /\ report' = report
    /\ events' = events

\* Faulty variant of Fail: run_streaming does not catch the exception of a stage.
Fail_Escapes(stage, exc) ==
    /\ failed' = [stage |-> stage, exc |-> exc]
    /\ resolved' = resolved
    /\ loc' = loc
    /\ pc' = At("Failed", stage)
    /\ result' = [status |-> "raised", exc |-> exc, paths |-> None]
    /\ report' = [stage |-> "absent", kind |-> exc.kind, message |-> exc.msg]
    /\ events' = events

\* The stage raised: run() lets the exception propagate to its caller;
\* run_streaming's `except Exception` yields _sse("error", "Pipeline failed",
\* {"detail": str(e)}) and the generator ends.
Fail(stage, exc) ==
    /\ failed' = [stage |-> stage, exc |-> exc]
    /\ resolved' = resolved
    /\ loc' = loc
    /\ IF run.mode = "run"
       THEN /\ pc' = At("Failed", stage)
            /\ result' = [status |-> "raised", exc |-> exc, paths |-> None]
            /\ report' = [stage |-> "absent", kind |-> exc.kind, message |-> exc.msg]
            /\ events' = events
       ELSE /\ pc' = At("end", stage)
            /\ result' = result
            /\ report' = [stage |-> "absent", kind |-> "absent", message |-> exc.msg]
            /\ events' = Append(events, <<"pipeline", "error">>)

\* The stage returned: the next statement of run() / run_streaming
Succeed(site, newLoc) ==
    /\ failed' = failed
    /\ report' = report
    /\ loc' = newLoc
    /\ IF site = "video"
       THEN /\ pc' = At("video_full", "video")
            /\ UNCHANGED <<resolved, events, result>>
       ELSE IF site = "video_full"
       THEN /\ resolved' = Append(resolved, "video")
            /\ IF run.mode = "run"
               THEN /\ pc' = At("Completed", "none")
                    /\ result' = [status |-> "returned", exc |-> NoExc,
                                  paths |-> <<OutputPath(run.song), FullOutputPath(run.song)>>]
                    /\ events' = events
               ELSE /\ pc' = At("yield_done", "pipeline")
                    /\ result' = result
                    /\ events' = Append(events, <<"video", "done">>)
       ELSE /\ resolved' = Append(resolved, site)
            /\ result' = result
            /\ IF run.mode = "run"
               THEN /\ pc' = At("stage", NextStage(site))
                    /\ events' = events
               ELSE /\ pc' = At("yield_stage_start", NextStage(site))
                    /\ events' = Append(events, <<site, "done">>)

\* One call of a stage function from the orchestrator, with the bookkeeping
\* of the history variables.  r is the stage function's result, args its
\* inputs (paths together with the bytes of the files they name).
StageStep(site, r, args, newLoc) ==
    /\ disk' = r.dsk
    /\ index' = r.idx
    /\ call' = [r.info EXCEPT
                  !.repeat = /\ prev[site].ok
                             /\ prev[site].args = args
                             /\ prev[site].envAt = env
                             /\ ArtifactsExist(disk, prev[site].ret),
                  !.prevRet = prev[site].ret]
    /\ prev' = [prev EXCEPT ![site] = [ok |-> r.info.exc = NoExc /\ r.info.fn # "validate_audio_file",
                                       args |-> args, ret |-> r.info.ret, envAt |-> env]]
    /\ invocations' = [invocations EXCEPT ![site] = @ + (IF r.info.invoked THEN 1 ELSE 0)]
    /\ lastStore' = IF r.info.stored THEN [lastStore EXCEPT ![r.info.k] = r.info.ret]
                    ELSE lastStore
    /\ validatedPaths' = validatedPaths \cup (IF r.info.validated THEN PathsOf(r.info.ret) ELSE {})
    /\ written' = written \cup (IF r.info.stored THEN {r.info.k} ELSE {})
    /\ started' = IF site = "video_full" THEN started ELSE Append(started, site)
    /\ IF r.info.exc = NoExc
       THEN Succeed(site, newLoc)
       ELSE Fail(IF site = "video_full" THEN "video" ELSE site, r.info.exc)
    /\ UNCHANGED <<run, runs, env>>
    /\ UNCHANGED <<concurrentVars, clearVars, lyricsVars, unitVars>>

\* KaraokePipeline._resolve_audio
resolve_audio ==
    /\ pc = At("stage", "audio")
    /\ \E lf \in LookupFaults(ENABLE_AUDIO_CACHE), sf \in StoreFaults(ENABLE_AUDIO_CACHE),
          outcome \in Outcomes :
         LET v == validate_audio_file(disk, UploadPath(run.song))
             r == IF run.src = "file_path"
                  THEN [idx |-> index, dsk |-> disk,
                        info |-> [NoCall EXCEPT !.fn = "validate_audio_file",
                                                !.ret = v.ret, !.exc = v.exc]]
                  ELSE download_from_youtube(index, disk, run.src, run.song, lf, sf, outcome)
         IN StageStep("audio", r, <<run.src, run.song>>,
                      [loc EXCEPT !.audio_path = r.info.ret[1]])

\* lrc_path = k_lyrics.fetch_lrc(self.track, self.artist, config.LYRICS_DIR)
fetch_lyrics ==
    /\ pc = At("stage", "lyrics")
    /\ \E lf \in LookupFaults(ENABLE_LYRICS_CACHE), sf \in StoreFaults(ENABLE_LYRICS_CACHE),
          outcome \in Outcomes :
         LET r == fetch_lrc(index, disk, run.song, lf, sf, outcome)
         IN StageStep("lyrics", r, run.song, [loc EXCEPT !.lrc_path = r.info.ret[1]])

\* instrumental_path, _ = k_separate.separate(self.audio_path, config.STEMS_DIR)
separate_stems ==
    /\ pc = At("stage", "separation")
    /\ \E lf \in LookupFaults(ENABLE_STEMS_CACHE), sf \in StoreFaults(ENABLE_STEMS_CACHE),
          outcome \in Outcomes :
         LET r == separate(index, disk, loc.audio_path, lf, sf, outcome)
         IN StageStep("separation", r, <<loc.audio_path, disk[loc.audio_path]>>,
                      [loc EXCEPT !.instrumental_path = r.info.ret[1]])

\* ass_path = k_subs.lrc_to_ass(lrc_path, config.SUBS_DIR / lrc_path.with_suffix(".ass").name)
make_subtitles ==
    /\ pc = At("stage", "subtitles")
    /\ \E lf \in LookupFaults(ENABLE_SUBTITLES_CACHE), sf \in StoreFaults(ENABLE_SUBTITLES_CACHE),
          outcome \in Outcomes :
         LET r == lrc_to_ass(index, disk, loc.lrc_path, AssPath(loc.lrc_path), lf, sf, outcome)
         IN StageStep("subtitles", r,
                      <<loc.lrc_path, disk[loc.lrc_path], AssPath(loc.lrc_path)>>,
                      [loc EXCEPT !.ass_path = r.info.ret[1]])

\* k_video.build_video(audio_path=instrumental_path, ..., output_path=output_path)
build_karaoke_video ==
    /\ pc = At("stage", "video")
    /\ \E lf \in LookupFaults(ENABLE_VIDEO_CACHE), sf \in StoreFaults(ENABLE_VIDEO_CACHE),
          outcome \in Outcomes :
         LET r == build_video(index, disk, loc.instrumental_path, loc.ass_path,
                              OutputPath(run.song), lf, sf, outcome)
         IN StageStep("video", r,
                      <<loc.instrumental_path, disk[loc.instrumental_path],
                        loc.ass_path, disk[loc.ass_path], OutputPath(run.song)>>, loc)

\* k_video.build_video(audio_path=self.audio_path, ..., output_path=full_output_path)
build_full_video ==
    /\ pc = At("video_full", "video")
    /\ \E lf \in LookupFaults(ENABLE_VIDEO_CACHE), sf \in StoreFaults(ENABLE_VIDEO_CACHE),
          outcome \in Outcomes :
         LET r == build_video(index, disk, loc.audio_path, loc.ass_path,
                              FullOutputPath(run.song), lf, sf, outcome)
         IN StageStep("video_full", r,
                      <<loc.audio_path, disk[loc.audio_path],
                        loc.ass_path, disk[loc.ass_path], FullOutputPath(run.song)>>, loc)

\* run_streaming: yield _sse("done", "Pipeline completed successfully!", {...})
YieldDone ==
    /\ pc = At("yield_done", "pipeline")
    /\ events' = Append(events, <<"pipeline", "done">>)
    /\ pc' = At("end", "none")
    /\ UNCHANGED <<disk, index, run, loc, result, report, failed, started, resolved, invocations,
                   call, prev, lastStore, validatedPaths, written, runs, env>>
    /\ UNCHANGED <<concurrentVars, clearVars, lyricsVars, unitVars>>

\* run_streaming: the generator returns after its last yield (StopIteration)
GeneratorReturn ==
    /\ pc.at = "end"
    /\ pc' = IF failed = NoFailure THEN At("Completed", "none") ELSE At("Failed", pc.stage)
    /\ UNCHANGED <<disk, index, run, loc, events, result, report, failed, started, resolved,
                   invocations, call, prev, lastStore, validatedPaths, written, runs, env>>
    /\ UNCHANGED <<concurrentVars, clearVars, lyricsVars, unitVars>>

\* ------------------------------------------------------------- environment
\* The environment acts between runs: in the model, when a run has been set
\* up and has not executed anything yet.
BetweenRuns == pc.at \in {"stage", "yield_start"} /\ started = <<>> /\ events = <<>>
Referenced(idx, p) == \E f \in DOMAIN idx : idx[f].shape = "ok" /\ p \in {idx[f].p1, idx[f].p2}

\* A cached artifact (a file an index entry names) is deleted out-of-band
DeleteArtifact(p) ==
    /\ env < MaxEnv
    /\ BetweenRuns
    /\ Exists(disk, p)
    /\ Referenced(index, p)
    /\ disk' = [disk EXCEPT ![p] = Absent]
    /\ env' = env + 1
    /\ UNCHANGED <<index, pc, run, loc, events, result, report, failed, started, resolved,
                   invocations, call, prev, lastStore, validatedPaths, written, runs>>
    /\ UNCHANGED <<concurrentVars, clearVars, lyricsVars, unitVars>>

\* An index file is damaged out-of-band (truncated, edited, overwritten)
CorruptIndexEntry(f, shape) ==
    /\ env < MaxEnv
    /\ BetweenRuns
    /\ index[f].shape # "none"
    /\ index[f].shape # shape
    /\ index' = [index EXCEPT ![f] = [shape |-> shape, p1 |-> NoPath, p2 |-> NoPath]]
    /\ env' = env + 1
    /\ UNCHANGED <<disk, pc, run, loc, events, result, report, failed, started, resolved,
                   invocations, call, prev, lastStore, validatedPaths, written, runs>>
    /\ UNCHANGED <<concurrentVars, clearVars, lyricsVars, unitVars>>

Next ==
    \/ \E mode \in Modes, src \in Sources, song \in Songs : StartRun(mode, src, song)
    \/ YieldStart
    \/ resolve_audio
    \/ fetch_lyrics
    \/ separate_stems
    \/ make_subtitles
    \/ build_karaoke_video
    \/ build_full_video
    \/ YieldDone
    \/ GeneratorReturn
    \/ \E p \in Paths : DeleteArtifact(p)
    \/ \E f \in IndexFiles, shape \in CorruptShapes : CorruptIndexEntry(f, shape)

Spec == Init /\ [][Next]_vars

\* ================================================================== claims
TerminalEvents == {<<"pipeline", "done">>, <<"pipeline", "error">>}
IsPrefix(a, b) == Len(a) <= Len(b) /\ \A i \in 1..Len(a) : a[i] = b[i]
\* the lookup of the last call met an injected I/O fault
LookupFaulted == call.lkExc \in {"PermissionError", "RuntimeError"}
EntryPaths(e) == <<e.p1, e.p2>>

\* C1: a stage function called twice in succession with byte-identical
\* inputs, the first call's artifact still on disk, returns the same path
\* both times and does not invoke its collaborator the second time.
C1_CacheIdempotence ==
    call.repeat => (call.exc = NoExc /\ call.ret = call.prevRet /\ ~call.invoked)

\* C2: a lookup that finds a valid entry one of whose artifacts has been
\* deleted returns None and deletes the entry, and the stage recomputes
\* (when the lookup itself meets no I/O fault).
C2_SelfHealing ==
    (call.lookedUp /\ call.entryBefore = "ok" /\ call.artMissing /\ ~LookupFaulted)
        => /\ call.lkExc = "none"
           /\ call.lkRet = None
           /\ call.entryAfterLookup = "none"
           /\ ~call.hit
           /\ call.invoked
\* the vocals file alone was deleted, the lookup healed the entry and the
\* collaborator, invoked again, failed
C2_Witness ==
    /\ call.fn = "separate" /\ call.entryBefore = "ok" /\ call.artMissing
    /\ call.entryAfterLookup = "none" /\ call.invoked /\ call.exc # NoExc
    /\ Exists(disk, InstrumentalPath(loc.audio_path))
    /\ ~Exists(disk, VocalsPath(loc.audio_path))

\* C3: once a stage has raised, the run is Failed for that stage: no later
\* stage was started or its collaborator invoked, no stage ran twice, and the
\* index entries written earlier in the run are present and valid.
LaterSites(stage) ==
    {c \in Stages : StageIndex(c) > StageIndex(stage)}
    \cup (IF stage = "video" THEN {} ELSE {"video_full"})
C4_OneTerminalOutcome ==
    /\ \A i \in 1..(Len(events) - 1) : events[i] \notin TerminalEvents
    /\ (pc.at \in Terminal /\ run.mode = "run_streaming") =>
          /\ Len(events) > 0
          /\ events[Len(events)] \in TerminalEvents
          /\ events[Len(events)] = <<"pipeline", "done">> <=> pc.at = "Completed"
          /\ result.status = "none"
    /\ (pc.at \in Terminal /\ run.mode = "run") =>
          /\ events = <<>>
          /\ result.status = (IF pc.at = "Completed" THEN "returned" ELSE "raised")
          /\ result.status = "raised" <=> result.exc # NoExc
          /\ result.status = "returned" <=> result.paths # None
C4_Witness ==
    /\ run.mode = "run_streaming" /\ pc.at = "Failed"
    /\ events[Len(events)] = <<"pipeline", "error">>

\* C5 as stated: the stages start in the order audio, separation, lyrics,
\* subtitles, video.
C5_SpecOrder ==
    IsPrefix(started, <<"audio", "separation", "lyrics", "subtitles", "video">>)
\* C5 amended: the stages start in the order audio, lyrics, separation,
\* subtitles, video, each only after the previous one returned successfully.
C5_StageOrder ==
    /\ IsPrefix(started, <<"audio", "lyrics", "separation", "subtitles", "video">>)
    /\ IsPrefix(resolved, started)
    /\ Len(started) <= Len(resolved) + 1
C5_Witness == Len(started) = 5 /\ Len(resolved) = 5 /\ pc.at = "Completed"

\* C6: no stage call ends with an exception raised inside a cache lookup or
\* a cache store.
C6_CacheFailuresNonFatal == ~call.cacheExc

\* C7: the terminal failure report names the failed stage, the error kind
\* and the message.
C7_StructuredReport ==
    failed # NoFailure =>
        /\ report.stage = failed.stage
        /\ report.kind = failed.exc.kind
        /\ report.message = failed.exc.msg

\* C8: the cache is consulted before the collaborator; a hit does not invoke
\* it; an entry is written only after the collaborator succeeded and its
\* output passed validation, so every valid entry names validated outputs.
C8_HitMissProtocol ==
    /\ call.invoked => call.lookedUp
    /\ call.hit => ~call.invoked
    /\ call.stored => (call.invoked /\ call.validated /\ call.exc = NoExc)
    /\ \A f \in IndexFiles :
          index[f].shape = "ok" => PathsOf(EntryPaths(index[f])) \subseteq validatedPaths
C8_Witness == call.fn = "separate" /\ call.hit /\ call.ret # None

\* C9: a lookup that finds a corrupt entry deletes it and returns None
\* without raising.
C9_CorruptEntriesHealed ==
    (call.lookedUp /\ call.entryBefore \in CorruptShapes /\ ~LookupFaulted)
        => /\ call.lkExc = "none"
           /\ call.lkRet = None
           /\ call.entryAfterLookup = "none"

\* C10: an index file holds the entry of the most recent store of its key,
\* and a lookup returns the artifact of that store while it exists.
C10_StoreOverwrites ==
    /\ \A f \in IndexFiles : index[f].shape = "ok" => EntryPaths(index[f]) = lastStore[f]
    /\ call.stored => index[call.k] = [shape |-> "ok", p1 |-> call.ret[1], p2 |-> call.ret[2]]
    /\ call.hit => call.ret = lastStore[call.k]
    /\ (call.lookedUp /\ call.entryBefore = "ok" /\ ~call.artMissing /\ ~LookupFaulted)
          => (call.hit /\ call.ret = lastStore[call.k])
\* a store wrote over an entry that was still in place
C10_Witness ==
    /\ call.stored /\ call.entryBefore # "none" /\ call.entryAfterLookup # "none"

\* Positions of a notification in the stream of a run
Positions(e) == {i \in 1..Len(events) : events[i] = e}
StageOfSite(site) == IF site = "video_full" THEN "video" ELSE site
Elements(seq) == {seq[i] : i \in 1..Len(seq)}

\* C12: in streaming mode a stage's start notification precedes the invocation
\* of its collaborator; its done notification follows the collaborator's
\* return and precedes the next stage's start; a done notification is
\* preceded by the start of the same stage; nothing follows an error
\* notification.
C12_NotificationOrder ==
    run.mode = "run_streaming" =>
        /\ \A site \in CallSites :
               (invocations[site] > 0 \/ StageOfSite(site) \in Elements(started))
                   => Positions(<<StageOfSite(site), "start">>) # {}
        /\ \A stage \in Stages : \A i \in Positions(<<stage, "done">>) :
               /\ stage \in Elements(resolved)
               /\ \E j \in Positions(<<stage, "start">>) : j < i
               /\ ~IsLastStage(stage) =>
                      \A j \in Positions(<<NextStage(stage), "start">>) : i < j
        /\ \A stage \in Stages : \A j \in Positions(<<stage, "start">>) :
               StageIndex(stage) > 1 =>
                   \E i \in Positions(<<StageOrder[StageIndex(stage) - 1], "done">>) : i < j
        /\ \A i \in Positions(<<"pipeline", "done">>) :
               \E j \in Positions(<<"pipeline", "start">>) : j < i
        /\ \A i \in Positions(<<"pipeline", "error">>) : i = Len(events)
        /\ \A stage \in Stages : Cardinality(Positions(<<stage, "start">>)) <= 1

\* C12 witness: a streaming run whose separation collaborator was invoked and
\* failed, after the audio and lyrics stages had reported start and done
C12_Witness ==
    /\ run.mode = "run_streaming"
    /\ invocations["separation"] = 1
    /\ failed.stage = "separation"
    /\ Positions(<<"lyrics", "done">>) # {}
    /\ events[Len(events)] = <<"pipeline", "error">>
    /\ pc.at = "Failed"

\* ============================================================ clear_cache
\* The five cache directories under .cache, each with the index files in it,
\* and the operations that add index files and clear directories.
MaxEntries == 2
EntryNames == 1..MaxEntries

\* The cache_type argument: Python's None, or a string
CacheTypeNone == "<None>"
CacheTypes == Categories \cup {CacheTypeNone, "", "bogus"}
\* `if cache_type:` -- None and the empty string are false
Truthy(cache_type) == cache_type \notin {CacheTypeNone, ""}

\* CacheManager.__init__: mkdir(exist_ok=True) of the five directories
MakeDirs(dirs) ==
    [c \in Categories |-> IF dirs[c].exists THEN dirs[c] ELSE [exists |-> TRUE, entries |-> {}]]
NoDirs == [c \in Categories |-> [exists |-> FALSE, entries |-> {}]]
\* shutil.rmtree(dir) followed by dir.mkdir(exist_ok=True)
Rmtree(dirs, c) == [dirs EXCEPT ![c] = [exists |-> FALSE, entries |-> {}]]
Mkdir(dirs, c) == [dirs EXCEPT ![c] = IF @.exists THEN @ ELSE [exists |-> TRUE, entries |-> {}]]

\* CacheManager.clear_cache: the directories it leaves
ClearCacheResult(dirs, cache_type) ==
    IF Truthy(cache_type)
    THEN IF cache_type \in Categories
         THEN Mkdir(Rmtree(dirs, cache_type), cache_type)
         ELSE dirs                       \* logger.warning("Unknown cache type")
    ELSE MakeDirs(NoDirs)                \* rmtree(cache_base_dir); self.__init__(...)

NoClear == [called |-> FALSE, cache_type |-> CacheTypeNone, before |-> NoDirs]

ClearInit ==
    /\ areas = MakeDirs(NoDirs)
    /\ cleared = NoClear
    /\ PipelineIdle /\ ConcurrentIdle /\ LyricsIdle /\ UnitIdle

\* cache_audio, cache_stems, cache_lyrics, cache_subtitles, cache_video:
\* cache_file.write_text(...) puts an index file into the category's directory
write_index_file(c, k) ==
    /\ areas[c].exists
    /\ areas' = [areas EXCEPT ![c].entries = @ \cup {k}]
    /\ cleared' = NoClear
    /\ UNCHANGED <<pipelineVars, concurrentVars, lyricsVars, unitVars>>

\* CacheManager.clear_cache(cache_type)
clear_cache(cache_type) ==
    /\ areas' = ClearCacheResult(areas, cache_type)
    /\ cleared' = [called |-> TRUE, cache_type |-> cache_type, before |-> areas]
    /\ UNCHANGED <<pipelineVars, concurrentVars, lyricsVars, unitVars>>

\* cache_cli.clear_cache: --type is one of the five names or absent (None);
\* the manager is called only on the answer y or yes
Responses == {"y", "yes", "", "n"}
cli_clear_cache(cache_type, response) ==
    /\ IF response \in {"y", "yes"}
       THEN /\ areas' = ClearCacheResult(areas, cache_type)
            /\ cleared' = [called |-> TRUE, cache_type |-> cache_type, before |-> areas]
       ELSE /\ areas' = areas
            /\ cleared' = NoClear
    /\ UNCHANGED <<pipelineVars, concurrentVars, lyricsVars, unitVars>>

ClearNext ==
    \/ \E c \in Categories, k \in EntryNames : write_index_file(c, k)
    \/ \E cache_type \in CacheTypes : clear_cache(cache_type)
    \/ \E cache_type \in Categories \cup {CacheTypeNone}, response \in Responses :
          cli_clear_cache(cache_type, response)

SpecClear == ClearInit /\ [][ClearNext]_vars

\* C13: clear affects exactly the named category.  After clear_cache(t) for
\* a known category t the directory of t exists and is empty and every other
\* directory is as before; after clear_cache() without a category all five
\* directories exist and are empty; after clear_cache with a name that is
\* none of the five nothing has changed.
C13_ClearFrame ==
    cleared.called =>
        IF cleared.cache_type \in Categories
        THEN /\ areas[cleared.cache_type] = [exists |-> TRUE, entries |-> {}]
             /\ \A c \in Categories \ {cleared.cache_type} : areas[c] = cleared.before[c]
        ELSE IF cleared.cache_type = CacheTypeNone
        THEN \A c \in Categories : areas[c] = [exists |-> TRUE, entries |-> {}]
        ELSE areas = cleared.before

\* ===================================================== concurrent separate
\* Two calls of separate() at the same time, on audio files of the same
\* bytes (one fingerprint, one index file .cache/stems/<sha256>.json), seen
\* at the level of the file system calls that get_cached_stems and
\* cache_stems make: exists, read_text, exists of the stems, unlink, and
\* write_text = open(O_CREAT | O_TRUNC) followed by write at offset 0.
MaxProcs == 2
Procs == 1..MaxProcs
\* the same bytes at two paths: the download of a song and an uploaded copy
ConcurrentAudio == {DownloadPath(<<1, 1>>), UploadPath(<<1, 1>>)}

\* The index file is a name (link) for an inode; an inode keeps its data
\* while a process holds it open, also after unlink.  Inode 0 is the file
\* present at the start, inode p the one created by process p.
NoInode == -1
Inodes == 0..MaxProcs
EmptyData == [kind |-> "empty", of |-> NoPath, len |-> 0]
\* json.dumps(cache_data, indent=2): the text names the audio path and the
\* two stem paths, so its length follows the length of the audio path
JsonLen(audio) == IF audio[1] = "upload" THEN 2 ELSE 1
EntryText(audio) == [kind |-> "entry", of |-> audio, len |-> JsonLen(audio)]
\* write(fd, text) at offset 0 of a file that may hold data already: the
\* bytes beyond the text written stay
WriteAtStart(data, text) ==
    IF data.len <= text.len THEN text
    ELSE [kind |-> "torn", of |-> NoPath, len |-> data.len]

NoProc == [pc |-> "exists", fd |-> NoInode, text |-> EmptyData, why |-> "none",
           invoked |-> FALSE, raised |-> "none", ret |-> NoPath]

ConcurrentInit ==
    /\ cin \in [Procs -> ConcurrentAudio]
    /\ cart \in SUBSET ConcurrentAudio
    /\ \E start \in {EmptyData} \cup {EntryText(a) : a \in ConcurrentAudio} :
          cfile = [link |-> IF start = EmptyData THEN NoInode ELSE 0,
                   inodes |-> [i \in Inodes |-> IF i = 0 THEN start ELSE EmptyData]]
    /\ proc = [p \in Procs |-> NoProc]
    /\ PipelineIdle /\ ClearIdle /\ LyricsIdle /\ UnitIdle

\* get_cached_stems: `if cache_file.exists():`
stems_exists(p) ==
    /\ proc[p].pc = "exists"
    /\ proc' = [proc EXCEPT ![p] = IF cfile.link = NoInode
                                   THEN [@ EXCEPT !.pc = "separator", !.why = "absent"]
                                   ELSE [@ EXCEPT !.pc = "read"]]
    /\ UNCHANGED <<cfile, cart, cin, pipelineVars, clearVars, lyricsVars, unitVars>>

\* get_cached_stems: json.loads(cache_file.read_text()).  FileNotFoundError
\* (the file was unlinked since exists()) leaves get_cached_stems and is
\* caught by separate; JSONDecodeError goes to the handler that unlinks.
stems_read(p) ==
    /\ proc[p].pc = "read"
    /\ proc' = [proc EXCEPT ![p] =
                  IF cfile.link = NoInode
                  THEN [@ EXCEPT !.pc = "separator", !.why = "vanished"]
                  ELSE LET data == cfile.inodes[cfile.link] IN
                       IF data.kind = "entry"
                       THEN [@ EXCEPT !.pc = "check", !.text = data]
                       ELSE [@ EXCEPT !.pc = "unlink", !.text = data, !.why = "undecodable"]]
    /\ UNCHANGED <<cfile, cart, cin, pipelineVars, clearVars, lyricsVars, unitVars>>

\* get_cached_stems: `if instrumental_path.exists() and vocals_path.exists():`
stems_check(p) ==
    /\ proc[p].pc = "check"
    /\ proc' = [proc EXCEPT ![p] =
                  IF proc[p].text.of \in cart
                  THEN [@ EXCEPT !.pc = "done", !.ret = InstrumentalPath(proc[p].text.of)]
                  ELSE [@ EXCEPT !.pc = "unlink", !.why = "stale"]]
    /\ UNCHANGED <<cfile, cart, cin, pipelineVars, clearVars, lyricsVars, unitVars>>

\* get_cached_stems: cache_file.unlink(); FileNotFoundError is caught by separate
stems_unlink(p) ==
    /\ proc[p].pc = "unlink"
    /\ cfile' = [cfile EXCEPT !.link = NoInode]
    /\ proc' = [proc EXCEPT ![p] = [@ EXCEPT !.pc = "separator"]]
    /\ UNCHANGED <<cart, cin, pipelineVars, clearVars, lyricsVars, unitVars>>

\* separate: the separator runs and writes the two stems beside each other,
\* or raises and the run ends
separator(p, ok) ==
    /\ proc[p].pc = "separator"
    /\ IF ok
       THEN /\ cart' = cart \cup {cin[p]}
            /\ proc' = [proc EXCEPT ![p] = [@ EXCEPT !.pc = "open", !.invoked = TRUE]]
       ELSE /\ cart' = cart
            /\ proc' = [proc EXCEPT ![p] = [@ EXCEPT !.pc = "done", !.invoked = TRUE,
                                                     !.raised = "separator"]]
    /\ UNCHANGED <<cfile, cin, pipelineVars, clearVars, lyricsVars, unitVars>>

\* cache_stems: cache_file.write_text(...) opens the file for writing: a
\* missing file is created, an existing one is cut to length 0
stems_open(p) ==
    /\ proc[p].pc = "open"
    /\ LET i == IF cfile.link = NoInode THEN p ELSE cfile.link IN
       /\ cfile' = [link |-> i, inodes |-> [cfile.inodes EXCEPT ![i] = EmptyData]]
       /\ proc' = [proc EXCEPT ![p] = [@ EXCEPT !.pc = "write", !.fd = i]]
    /\ UNCHANGED <<cart, cin, pipelineVars, clearVars, lyricsVars, unitVars>>

\* cache_stems: write_text writes the text and closes; separate returns
stems_write(p) ==
    /\ proc[p].pc = "write"
    /\ cfile' = [cfile EXCEPT !.inodes[proc[p].fd] = WriteAtStart(@, EntryText(cin[p]))]
    /\ proc' = [proc EXCEPT ![p] = [@ EXCEPT !.pc = "done", !.ret = InstrumentalPath(cin[p])]]
    /\ UNCHANGED <<cart, cin, pipelineVars, clearVars, lyricsVars, unitVars>>

ConcurrentNext ==
    \E p \in Procs :
        \/ stems_exists(p)
        \/ stems_read(p)
        \/ stems_check(p)
        \/ stems_unlink(p)
        \/ \E ok \in BOOLEAN : separator(p, ok)
        \/ stems_open(p)
        \/ stems_write(p)

SpecConcurrent == ConcurrentInit /\ [][ConcurrentNext]_vars

\* C11: under every interleaving of two runs on one fingerprint neither run
\* ends with an error of the cache; a run that read a half-written or
\* vanished index file went on as a miss (its separator was invoked); and
\* when both have ended, the index file is absent or holds a complete entry
\* written by one run.
C11_ConcurrentRuns ==
    /\ \A p \in Procs : proc[p].raised \in {"none", "separator"}
    /\ \A p \in Procs :
          (proc[p].pc = "done" /\ proc[p].why \in {"vanished", "undecodable"})
              => proc[p].invoked
    /\ (\A p \in Procs : proc[p].pc = "done") =>
          \/ cfile.link = NoInode
          \/ cfile.inodes[cfile.link].kind = "entry"

\* ================================================== lyrics and subtitles
\* The three LRC-to-ASS converters of the repository and the Lyrics model
\* of the lyrics fetcher, applied to one transcript.  Times are whole
\* centiseconds, as the [mm:ss.xx] and <mm:ss.xx> stamps give them; the
\* arithmetic of the code is done on them exactly.
MaxLines == 2
MaxWords == 4
MaxTags == 2
Times == {0, 10, 50, 100}
NoTime == -1
\* `start + 5.0`: the tail given to the last line
TailCs == 500
\* trans_dur_sec = 0.3, in milliseconds
TransitionMs == 300

\* One record "[time]text" of a transcript: tags are the <mm:ss.xx> stamps
\* inside the text; words is the number of blank-separated words of the
\* text without the stamps.  A record without stamps may have an empty text
\* (words = 0); in a record with stamps either every stamp is followed by a
\* word or none is (words = 0).
Records ==
    {[time |-> t, tags |-> <<>>, words |-> n] : t \in Times, n \in 0..MaxWords}
    \cup UNION {{[time |-> t, tags |-> tg, words |-> n] : t \in Times, n \in {0, Len(tg)}} :
                    tg \in UNION {[1..k -> Times] : k \in 1..MaxTags}}
Transcripts == UNION {[1..k -> Records] : k \in 1..MaxLines}

Larger(a, b) == IF a >= b THEN a ELSE b
Smaller(a, b) == IF a <= b THEN a ELSE b
\* Python's round(a / n) for a >= 0, n > 0: halves go to the even neighbour
RoundHalfEven(a, n) ==
    LET q == a \div n
        r == a % n
    IN IF 2 * r < n THEN q
       ELSE IF 2 * r > n THEN q + 1
       ELSE IF q % 2 = 0 THEN q ELSE q + 1

\* sorted(lrc, key=lambda l: l.time): stable, equal times keep their order
RECURSIVE SortedByTime(_)
SortedByTime(lines) ==
    IF lines = <<>> THEN <<>>
    ELSE LET x == lines[Len(lines)]
             head == SortedByTime(SubSeq(lines, 1, Len(lines) - 1))
             k == Cardinality({i \in 1..Len(head) : head[i].time <= x.time})
         IN SubSeq(head, 1, k) \o <<x>> \o SubSeq(head, k + 1, Len(head))

\* create_karaoke_text / _create_karaoke_text: the \k durations of the words
\* of a line, int((end_sec - start_sec) * 100) each
create_karaoke_text(tags, line_end_seconds) ==
    [i \in 1..Len(tags) |->
        (IF i + 1 <= Len(tags) THEN tags[i + 1] ELSE line_end_seconds) - tags[i]]

\* src/karaoke/subtitles.py, the loop body of lrc_to_ass for line idx
KaraokeEvent(lines, idx) ==
    LET start_time_sec == lines[idx].time
        next_start_time == IF idx + 1 <= Len(lines) THEN lines[idx + 1].time ELSE NoTime
        \* `next_start_time or (start_time_sec + 5.0)`: None and 0.0 are false
        end_time_sec == IF next_start_time \in {NoTime, 0}
                        THEN start_time_sec + TailCs ELSE next_start_time
        starts == lines[idx].tags
        durations ==
            IF starts # <<>>
            THEN [i \in 1..Len(starts) |->
                    IF i + 1 <= Len(starts) THEN starts[i + 1] - starts[i]
                    ELSE Larger(10, end_time_sec - starts[i])]
            ELSE [i \in 1..lines[idx].words |-> 0]
        total_dur == Larger(20, end_time_sec - start_time_sec)
    IN [line |-> idx, start |-> start_time_sec, end |-> end_time_sec, timed |-> TRUE,
        k |-> [i \in 1..Len(durations) |->
                 IF starts # <<>>
                 THEN Larger(1, durations[i])
                 ELSE Larger(1, RoundHalfEven(total_dur, lines[idx].words))],
        dur_ms |-> NoTime, trans_ms |-> NoTime]

\* src/subtitles.py, the loop body of convert_lrc_to_ass for line i; the
\* line is left out when dur_sec <= 0
LegacyEvent(lines, i, is_word_level) ==
    LET current_sec == lines[i].time
        next_sec == IF i + 1 <= Len(lines) THEN lines[i + 1].time ELSE current_sec + TailCs
        dur_sec == next_sec - current_sec
        dur_ms == 10 * dur_sec
        trans_ms == IF dur_ms < TransitionMs THEN dur_ms \div 2 ELSE TransitionMs
        timed == is_word_level /\ Len(lines[i].tags) > 1
    IN [line |-> i, start |-> current_sec, end |-> next_sec, timed |-> timed,
        \* create_karaoke_text(word_segments, dur_sec): the duration is passed
        \* where the end of the line is expected
        k |-> IF timed THEN create_karaoke_text(lines[i].tags, dur_sec) ELSE <<>>,
        dur_ms |-> dur_ms, trans_ms |-> trans_ms]

\* ass_converter.py, the loop body of _convert_lrc_to_ass_internal
CreatorEvent(lines, idx, is_word_level) ==
    LET start_sec == lines[idx].time
        end_sec == IF idx + 1 <= Len(lines) THEN lines[idx + 1].time ELSE start_sec + TailCs
        dur_sec == Larger(10, end_sec - start_sec)
        dur_ms == 10 * dur_sec
        trans_ms == Smaller(TransitionMs, dur_ms \div 2)
        timed == is_word_level /\ Len(lines[idx].tags) > 1
    IN [line |-> idx, start |-> start_sec, end |-> end_sec, timed |-> timed,
        k |-> IF timed THEN create_karaoke_text(lines[idx].tags, end_sec) ELSE <<>>,
        dur_ms |-> dur_ms, trans_ms |-> trans_ms]

\* Lyrics._calculate_line_endings and LyricLine.is_word_level
calculate_line_endings(lines) ==
    [i \in 1..Len(lines) |->
        [lines[i] EXCEPT !.end = IF i + 1 <= Len(lines) THEN lines[i + 1].time
                                 ELSE lines[i].time + TailCs]]
\* Lyrics.add_line appends the LyricLine; end_seconds keeps its default None
add_line(lines, record) ==
    Append(lines, [time |-> record.time, tags |-> record.tags, words |-> record.words,
                   segments |-> [j \in 1..Larger(1, Len(record.tags)) |-> TRUE],
                   end |-> NoTime])
RECURSIVE AddLines(_, _)
AddLines(lines, records) ==
    IF records = <<>> THEN lines
    ELSE AddLines(add_line(lines, records[1]), SubSeq(records, 2, Len(records)))

\* src/subtitles.py parse_lrc: the stamped segments with a word are kept;
\* when there is none the whole text, empty or not, becomes one segment.
\* segments tells of each kept segment whether its text is non-empty.
parse_lrc(records) ==
    [i \in 1..Len(records) |->
        LET text_words == records[i].words
            word_segments == IF text_words > 0 THEN records[i].tags ELSE <<>>
        IN [time |-> records[i].time, tags |-> word_segments, words |-> text_words,
            segments |-> IF word_segments # <<>>
                         THEN [j \in 1..Len(word_segments) |-> TRUE]
                         ELSE <<text_words > 0 \/ records[i].tags # <<>> >>]]

\* ass_converter.py _parse_lrc: the segments found, or the whole text as one
\* segment, are filtered by `if w.strip()` and the line is appended with
\* whatever is left
creator_parse_lrc(records) ==
    [i \in 1..Len(records) |->
        LET text_words == records[i].words
            word_segments == IF records[i].tags # <<>>
                             THEN [j \in 1..Len(records[i].tags) |-> text_words > 0]
                             ELSE <<text_words > 0>>
            kept == SelectSeq(word_segments, LAMBDA w : w)
        IN [time |-> records[i].time,
            tags |-> IF text_words > 0 THEN records[i].tags ELSE <<>>,
            words |-> text_words, segments |-> kept]]

NotParsed == [by |-> "none", lines |-> <<>>, is_word_level |-> FALSE]

LyricsInit ==
    /\ lrc \in [lines : Transcripts, word_level_name : BOOLEAN]
    /\ lyr = NotParsed
    /\ ass = <<>>
    /\ PipelineIdle /\ ConcurrentIdle /\ ClearIdle /\ UnitIdle

\* src/karaoke/subtitles.py lrc_to_ass: pylrc.parse, sorted, one event a line
lrc_to_ass_events ==
    /\ lyr = NotParsed
    /\ LET lines == SortedByTime(lrc.lines) IN
       /\ lyr' = [by |-> "karaoke", lines |-> lines, is_word_level |-> FALSE]
       \* `if not words: continue` skips a line without a word
       /\ ass' = SelectSeq([i \in 1..Len(lines) |-> KaraokeEvent(lines, i)],
                           LAMBDA e : lines[e.line].words > 0)
    /\ UNCHANGED <<lrc, pipelineVars, concurrentVars, clearVars, unitVars>>

\* src/subtitles.py convert_lrc_to_ass: parse_lrc keeps the order of the file
convert_lrc_to_ass ==
    /\ lyr = NotParsed
    /\ LET lines == parse_lrc(lrc.lines) IN
       /\ lyr' = [by |-> "legacy", lines |-> lines, is_word_level |-> lrc.word_level_name]
       /\ ass' = SelectSeq([i \in 1..Len(lines) |-> LegacyEvent(lines, i, lrc.word_level_name)],
                           LAMBDA e : e.end - e.start > 0)
    /\ UNCHANGED <<lrc, pipelineVars, concurrentVars, clearVars, unitVars>>

\* ass_converter.py _convert_lrc_to_ass_internal: _parse_lrc keeps the order
convert_lrc_to_ass_internal ==
    /\ lyr = NotParsed
    /\ LET lrc_lines == creator_parse_lrc(lrc.lines) IN
       /\ lyr' = [by |-> "creator", lines |-> lrc_lines, is_word_level |-> lrc.word_level_name]
       /\ ass' = [i \in 1..Len(lrc_lines) |-> CreatorEvent(lrc_lines, i, lrc.word_level_name)]
    /\ UNCHANGED <<lrc, pipelineVars, concurrentVars, clearVars, unitVars>>

\* fetcher.py _parse_lrc_content: Lyrics() runs __post_init__ on no lines,
\* then add_line is called for each record in the order of the text
parse_lrc_content ==
    /\ lyr = NotParsed
    /\ LET lyrics == [lines |-> calculate_line_endings(<<>>),
                      is_word_level |-> \E i \in {} : TRUE] IN
       \* `if word_segments:` a record without a word is not added
       lyr' = [by |-> "fetcher",
               lines |-> AddLines(lyrics.lines, SelectSeq(lrc.lines, LAMBDA r : r.words > 0)),
               is_word_level |-> lyrics.is_word_level]
    /\ ass' = <<>>
    /\ UNCHANGED <<lrc, pipelineVars, concurrentVars, clearVars, unitVars>>

LyricsNext ==
    \/ lrc_to_ass_events
    \/ convert_lrc_to_ass
    \/ convert_lrc_to_ass_internal
    \/ parse_lrc_content

SpecLyrics == LyricsInit /\ [][LyricsNext]_vars

\* C14: whatever the order of the records of the transcript, the lines a
\* parser hands on are strictly increasing by start time: no line starts
\* before or at the start of a line that precedes it.
C14_StrictlyIncreasing ==
    lyr.by # "none" =>
        \A i, j \in 1..Len(lyr.lines) : i < j => lyr.lines[i].time < lyr.lines[j].time

\* C15: the end of every line but the last is the start of the line after
\* it, also when that start is 0; the end of the last line is its start
\* plus the tail of 5 seconds.  Stated for the lines of the Lyrics model and
\* for the events the converters write.
C15_EndTimeBackfill ==
    /\ lyr.by = "fetcher" =>
          \A i \in 1..Len(lyr.lines) :
              lyr.lines[i].end = IF i + 1 <= Len(lyr.lines) THEN lyr.lines[i + 1].time
                                 ELSE lyr.lines[i].time + TailCs
    /\ \A n \in 1..Len(ass) :
          LET i == ass[n].line IN
          ass[n].end = IF i + 1 <= Len(lyr.lines) THEN lyr.lines[i + 1].time
                       ELSE lyr.lines[i].time + TailCs

RECURSIVE SumSeq(_)
SumSeq(seq) == IF seq = <<>> THEN 0 ELSE seq[1] + SumSeq(SubSeq(seq, 2, Len(seq)))
Distance(a, b) == IF a >= b THEN a - b ELSE b - a

\* C16: for every line whose event carries reveal durations, with inline
\* word stamps or split evenly into its words, the durations add up to the
\* duration of the line, end - start, within one centisecond.
C16_DurationsAddUp ==
    \A n \in 1..Len(ass) :
        ass[n].timed => Distance(SumSeq(ass[n].k), ass[n].end - ass[n].start) <= 1

\* C17: for a line with inline word stamps whose event carries reveal
\* durations, the duration of each word is the start of the next word minus
\* its own start, the duration of the last word is the end of the line
\* minus its own start, and no duration is negative.
C17_WordDurations ==
    \A n \in 1..Len(ass) :
        LET tags == lyr.lines[ass[n].line].tags IN
        (ass[n].timed /\ tags # <<>>) =>
            /\ Len(ass[n].k) = Len(tags)
            /\ \A j \in 1..Len(tags) :
                  /\ ass[n].k[j] = (IF j + 1 <= Len(tags) THEN tags[j + 1] ELSE ass[n].end) - tags[j]
                  /\ ass[n].k[j] >= 0

\* C18: for every event that carries a transition window, the window in
\* milliseconds is the smaller of the configured 300 ms and half the duration
\* of the line in milliseconds (rounded down), and so never exceeds that half.
C18_TransitionWindow ==
    \A n \in 1..Len(ass) :
        ass[n].trans_ms # NoTime =>
            /\ ass[n].trans_ms = Smaller(TransitionMs, ass[n].dur_ms \div 2)
            /\ 2 * ass[n].trans_ms <= ass[n].dur_ms

\* C19: word-level detection follows the content.  A transcript is flagged
\* word-level exactly when one of its lines carried inline word stamps; an
\* event carries one reveal duration per stamped word exactly when its line
\* carried inline stamps; a line without them is revealed as one block and
\* is not split into words.
C19_WordLevelFollowsContent ==
    /\ lyr.by \in {"fetcher", "legacy", "creator"} =>
          (lyr.is_word_level <=> \E i \in 1..Len(lyr.lines) : lyr.lines[i].tags # <<>>)
    /\ \A n \in 1..Len(ass) :
          LET tags == lyr.lines[ass[n].line].tags IN
          IF tags # <<>>
          THEN ass[n].timed /\ Len(ass[n].k) = Len(tags)
          ELSE Len(ass[n].k) <= 1

\* C20: a line that starts when the line after it starts is kept, with an
\* event whose end equals its start; and for any transcript, decreasing
\* stamps included, no event ends before it starts and no reveal duration
\* is negative.
C20_ZeroDurationKept ==
    /\ \A i \in 1..Len(lyr.lines) :
          (lyr.by \in {"karaoke", "legacy", "creator"} /\ i + 1 <= Len(lyr.lines)
             /\ lyr.lines[i].time = lyr.lines[i + 1].time)
              => \E n \in 1..Len(ass) : ass[n].line = i /\ ass[n].end = ass[n].start
    /\ \A n \in 1..Len(ass) :
          /\ ass[n].end >= ass[n].start
          /\ \A j \in 1..Len(ass[n].k) : ass[n].k[j] >= 0

\* C21: every line a transcript parser keeps has at least one word segment
\* with non-empty text, and a record whose text is empty, or whose stamped
\* tokens are all empty, leaves no line and no caption event.
C21_NoEmptyLine ==
    /\ lyr.by \in {"legacy", "creator", "fetcher"} =>
          \A i \in 1..Len(lyr.lines) :
              /\ \E j \in 1..Len(lyr.lines[i].segments) : lyr.lines[i].segments[j]
              /\ lyr.lines[i].words > 0
    /\ \A n \in 1..Len(ass) : lyr.lines[ass[n].line].words > 0

\* ============================================================ time codes
\* time_to_seconds / _time_to_seconds / WordSegment._timestamp_to_seconds
\* and seconds_to_ass_time / _seconds_to_ass_time, applied to one text.  A
\* text is what str.split gives: the parts between ':', each the fields
\* between '.', each field the characters it is made of.
DigitChars == <<"0", "1", "2", "3", "4", "5", "6", "7", "8", "9">>
DigitValue(ch) == (CHOOSE d \in 1..10 : DigitChars[d] = ch) - 1
\* int(field) raises ValueError unless the field is one or more digits
IsDigits(field) ==
    field # <<>> /\ \A i \in 1..Len(field) : \E d \in 1..10 : DigitChars[d] = field[i]
RECURSIVE IntOf(_)
IntOf(field) ==
    IF field = <<>> THEN 0
    ELSE 10 * IntOf(SubSeq(field, 1, Len(field) - 1)) + DigitValue(field[Len(field)])
RECURSIVE DigitsOf(_)
DigitsOf(n) ==
    IF n < 10 THEN <<DigitChars[n + 1]>> ELSE Append(DigitsOf(n \div 10), DigitChars[(n % 10) + 1])
\* f"{n:02d}"
Pad2(n) == IF n < 10 THEN <<"0">> \o DigitsOf(n) ELSE DigitsOf(n)
\* field.ljust(2, '0')
Ljust2(field) ==
    IF Len(field) >= 2 THEN field
    ELSE field \o [i \in 1..(2 - Len(field)) |-> "0"]

EmptyText == << << <<>> >> >>
FieldPool == {<<>>, <<"5">>, <<"0", "5">>, <<"2", "9">>, <<"7", "5">>, <<"0", "0", "5">>, <<"x">>}
PartPool == {<<f>> : f \in FieldPool} \cup {<<f, g>> : f \in FieldPool, g \in FieldPool}
TimeTexts ==
    {<<p>> : p \in PartPool}
    \cup {<<p, q>> : p \in PartPool, q \in PartPool}
    \cup {<< <<f>>, <<g>>, q >> : f \in FieldPool, g \in FieldPool, q \in PartPool}

\* A float that is whole seconds plus the double nearest to cents / 100,
\* or the exception raised instead of it
Seconds(whole, cents) == [raised |-> "none", whole |-> whole, cents |-> cents]
ValueError == [raised |-> "ValueError", whole |-> 0, cents |-> 0]
NotComputed == [raised |-> "not computed", whole |-> 0, cents |-> 0]
NoText == <<>>

\* src/subtitles.py time_to_seconds and ass_converter.py _time_to_seconds
time_to_seconds(text) ==
    IF text = EmptyText THEN Seconds(0, 0)
    ELSE IF Len(text) # 2 THEN ValueError
    ELSE LET minutes == text[1]
             rest == text[2]
         IN IF Len(rest) # 2 THEN ValueError
            ELSE LET secs == rest[1]
                     cents == Ljust2(rest[2])
                 IN IF Len(minutes) = 1 /\ IsDigits(minutes[1]) /\ IsDigits(secs)
                       /\ IsDigits(cents)
                    THEN Seconds(IntOf(minutes[1]) * 60 + IntOf(secs) + (IntOf(cents) \div 100),
                                 IntOf(cents) % 100)
                    ELSE ValueError

\* WordSegment._timestamp_to_seconds: `except (ValueError, IndexError): return 0.0`
timestamp_to_seconds(text) ==
    IF time_to_seconds(text) = ValueError THEN Seconds(0, 0) ELSE time_to_seconds(text)

\* The arithmetic of IEEE doubles on whole + cents / 100, done on the
\* remainders of the binary expansion of cents / 100.
MantissaBits == 52
RECURSIVE Pow2(_)
Pow2(n) == IF n = 0 THEN 1 ELSE 2 * Pow2(n - 1)
RECURSIVE FloorLog2(_)
FloorLog2(n) == IF n < 2 THEN 0 ELSE 1 + FloorLog2(n \div 2)
\* (2^k * c) mod 100: what is left of c / 100 after k binary digits
RECURSIVE Remainder(_, _)
Remainder(c, k) == IF k = 0 THEN c % 100 ELSE (2 * Remainder(c, k - 1)) % 100
\* zero binary digits of c / 100 after the point, 1 <= c <= 99
RECURSIVE LeadingZeros(_)
LeadingZeros(r) == IF 2 * r >= 100 THEN 0 ELSE 1 + LeadingZeros(2 * r)

\* int((seconds % 1) * 100) for seconds = whole + (cents / 100), each
\* operation rounded to the nearest double, ties to even
TruncatedCents(whole, c) ==
    IF c = 0 THEN 0
    ELSE
    LET Ea == 0 - (LeadingZeros(c) + 1)
        ka == MantissaBits - Ea
        E == IF whole = 0 THEN Ea ELSE FloorLog2(whole)
        k == MantissaBits - E
        m == ka - k
        rk == Remainder(c, k)
        \* cents / 100 rounded to ka digits, then the sum rounded to k digits
        Ta == ((Pow2(m) * rk) \div 100) + (IF 2 * ((Pow2(m) * rk) % 100) > 100 THEN 1 ELSE 0)
        odd == IF k = 0 THEN whole % 2 = 1 ELSE 2 * Remainder(c, k - 1) >= 100
        up == IF whole = 0 THEN 2 * rk > 100
              ELSE IF 2 * Ta < Pow2(m) THEN FALSE
              ELSE IF 2 * Ta > Pow2(m) THEN TRUE
              ELSE odd
        Ec == FloorLog2(c)
        d == 1 + (IF Pow2(Ec) = c THEN 1 ELSE 0) + E - Ec
        \* the product (seconds % 1) * 100 falls below c
        below == ~up /\ rk > 0 /\ (IF d >= 0 THEN rk * Pow2(d) > 1 ELSE rk > Pow2(0 - d))
    IN IF below THEN c - 1 ELSE c

\* src/subtitles.py seconds_to_ass_time and ass_converter.py _seconds_to_ass_time
seconds_to_ass_time(s) ==
    LET hours == s.whole \div 3600
        minutes == (s.whole % 3600) \div 60
        secs == s.whole % 60
        cents == TruncatedCents(s.whole, s.cents)
    IN << <<DigitsOf(hours)>>, <<Pad2(minutes)>>, <<Pad2(secs), Pad2(cents)>> >>

Parsers == {"legacy", "creator", "model"}

TimecodeInit ==
    /\ time_str \in TimeTexts
    /\ seconds = [by |-> "none", value |-> NotComputed]
    /\ ass_time = NoText
    /\ again = NotComputed
    /\ TimecodeFrameIdle

\* start_sec = _time_to_seconds(line_time); WordSegment.__post_init__
parse_time(parser) ==
    /\ seconds.by = "none"
    /\ seconds' = [by |-> parser,
                   value |-> IF parser = "model" THEN timestamp_to_seconds(time_str)
                             ELSE time_to_seconds(time_str)]
    /\ UNCHANGED <<time_str, ass_time, again>>
    /\ UNCHANGED timecodeFrame

\* start_ts = _seconds_to_ass_time(start_sec)
format_time ==
    /\ seconds.by \in {"legacy", "creator"}
    /\ seconds.value.raised = "none"
    /\ ass_time = NoText
    /\ ass_time' = seconds_to_ass_time(seconds.value)
    /\ UNCHANGED <<time_str, seconds, again>>
    /\ UNCHANGED timecodeFrame

\* the printed time code given back to the parser that made the seconds
parse_time_code ==
    /\ ass_time # NoText
    /\ again = NotComputed
    /\ again' = time_to_seconds(ass_time)
    /\ UNCHANGED <<time_str, seconds, ass_time>>
    /\ UNCHANGED timecodeFrame

TimecodeNext ==
    \/ \E parser \in Parsers : parse_time(parser)
    \/ format_time
    \/ parse_time_code

SpecTimecode == TimecodeInit /\ [][TimecodeNext]_vars

\* The shape M+:SS.CC: one or more digits, ':', two digits, '.', two digits
WellFormed(text) ==
    /\ Len(text) = 2
    /\ Len(text[1]) = 1 /\ IsDigits(text[1][1])
    /\ Len(text[2]) = 2
    /\ IsDigits(text[2][1]) /\ Len(text[2][1]) = 2
    /\ IsDigits(text[2][2]) /\ Len(text[2][2]) = 2

\* C22: parsing a time stamp is strict.  A text that is not of the shape
\* M+:SS.CC (empty, a missing, one-digit or three-digit fraction, a field
\* that is not a number) makes the parser fail with an error; no parser
\* returns 0 or any other value for it.
C22_StrictParse ==
    (seconds.by # "none" /\ ~WellFormed(time_str)) => seconds.value.raised = "ValueError"

\* C23: time codes survive a round trip.  The seconds parsed from a text,
\* printed in the form H:MM:SS.CC and parsed again, are the seconds parsed
\* from the text; the printed form has one or more digits of hours and two
\* digits each of minutes, seconds and centiseconds.
C23_RoundTrip ==
    /\ ass_time # NoText =>
          /\ Len(ass_time) = 3
          /\ IsDigits(ass_time[1][1])
          /\ Len(ass_time[2][1]) = 2 /\ Len(ass_time[3][1]) = 2 /\ Len(ass_time[3][2]) = 2
    /\ again # NotComputed => again = seconds.value

\* ========================================================== fingerprints
\* CacheManager._get_file_hash, _get_content_hash and _get_cache_key on
\* their own.  A str is its text; a dict is its items in insertion order,
\* the keys distinct; a file is the bytes in it.
MaxItems == 3
MaxBytes == 3
\* f.read(4096), scaled
ChunkSize == 2
DictKeys == {"audio_hash", "resolution", "subtitles_hash"}
DictValues == {1, 2}
Strs == {[type |-> "str", text |-> t] : t \in {"test string", "other"}}
Injective(f) == \A i, j \in DOMAIN f : i # j => f[i] # f[j]
Dicts ==
    {[type |-> "dict", items |-> [i \in 1..n |-> <<ks[i], vs[i]>>]] :
        <<n, ks, vs>> \in UNION {{<<n, ks, vs>> : ks \in {f \in [1..n -> DictKeys] : Injective(f)},
                                                  vs \in [1..n -> DictValues]} : n \in 0..MaxItems}}
Contents == Strs \cup Dicts
FileBytes == UNION {[1..n -> {0, 1}] : n \in 0..MaxBytes}

\* the order of str in Python on the keys used
KeyRank(key) ==
    CASE key = "args" -> 1 [] key = "audio_hash" -> 2 [] key = "kwargs" -> 3
      [] key = "resolution" -> 4 [] key = "subtitles_hash" -> 5
\* json.dumps(content): the items are written in insertion order
json_dumps_insertion_order(items) == [json |-> items]
\* json.dumps(content, sort_keys=True): the items are written sorted by key
json_dumps(items) ==
    [json |-> [i \in 1..Len(items) |->
                 items[CHOOSE j \in 1..Len(items) :
                         Cardinality({l \in 1..Len(items) :
                                        KeyRank(items[l][1]) < KeyRank(items[j][1])}) = i - 1]]]

\* CacheManager._get_content_hash on a str or a dict
get_content_hash_of(c) ==
    IF c.type = "dict" THEN get_content_hash(json_dumps(c.items)) ELSE get_content_hash(c.text)
\* CacheManager._get_cache_key(**kwargs): the dict {"args": (), "kwargs": kwargs}
get_cache_key(kwargs) ==
    get_content_hash_of([type |-> "dict",
                         items |-> << <<"args", <<>> >>, <<"kwargs", json_dumps(kwargs)>> >>])

\* the loop of _get_file_hash: sha256_hash.update(chunk) until read gives b""
RECURSIVE update_chunks(_, _)
update_chunks(sha256_hash, rest) ==
    IF rest = <<>> THEN sha256_hash
    ELSE LET n == Smaller(ChunkSize, Len(rest)) IN
         update_chunks(sha256_hash \o SubSeq(rest, 1, n), SubSeq(rest, n + 1, Len(rest)))
file_hexdigest(bytes) == get_content_hash(update_chunks(<<>>, bytes))

NoDigest == [sha256 |-> "none"]
NoDigests ==
    [done |-> FALSE, first |-> NoDigest, second |-> NoDigest, key1 |-> NoDigest, key2 |-> NoDigest]

FingerprintInit ==
    /\ content \in [kind : {"values"}, first : Contents, second : Contents]
                   \cup [kind : {"files"}, first : FileBytes, second : FileBytes]
    /\ digest = NoDigests
    /\ FingerprintFrameIdle

\* test_cache: content_hash1, content_hash2; and a cache key of each dict
hash_contents ==
    /\ content.kind = "values"
    /\ ~digest.done
    /\ digest' = [done |-> TRUE,
                  first |-> get_content_hash_of(content.first),
                  second |-> get_content_hash_of(content.second),
                  key1 |-> IF content.first.type = "dict" THEN get_cache_key(content.first.items)
                           ELSE NoDigest,
                  key2 |-> IF content.second.type = "dict" THEN get_cache_key(content.second.items)
                           ELSE NoDigest]
    /\ UNCHANGED <<content, fingerprintFrame>>

\* test_cache: hash1, hash2 of files
hash_files ==
    /\ content.kind = "files"
    /\ ~digest.done
    /\ digest' = [NoDigests EXCEPT !.done = TRUE,
                                   !.first = file_hexdigest(content.first),
                                   !.second = file_hexdigest(content.second)]
    /\ UNCHANGED <<content, fingerprintFrame>>

FingerprintNext == hash_contents \/ hash_files

SpecFingerprint == FingerprintInit /\ [][FingerprintNext]_vars

ItemsOf(c) == {c.items[i] : i \in 1..Len(c.items)}
SameValue(a, b) ==
    /\ a.type = b.type
    /\ IF a.type = "dict" THEN ItemsOf(a) = ItemsOf(b) ELSE a.text = b.text

\* C24: fingerprints are deterministic and do not depend on the order of
\* insertion.  Two files with the same bytes have the same key; two strs
\* with the same text have the same key; two dicts with the same key/value
\* pairs, inserted in whatever order, have the same key, directly and as
\* the keyword arguments of a cache key.
C24_FingerprintStable ==
    digest.done =>
        /\ (content.kind = "files" /\ content.first = content.second)
              => digest.first = digest.second
        /\ (content.kind = "values" /\ SameValue(content.first, content.second))
              => (digest.first = digest.second /\ digest.key1 = digest.key2)

\* C24 witness: two dicts with the same three pairs inserted in different
\* orders have been fingerprinted
C24_Witness ==
    /\ digest.done
    /\ content.kind = "values"
    /\ content.first.type = "dict"
    /\ Len(content.first.items) = MaxItems
    /\ SameValue(content.first, content.second)
    /\ content.first.items # content.second.items

\* ========================================================= lyrics fetching
\* LyricsFetcher.fetch_lyrics (karaoke_creator) and get_lyrics (src/lyrics.py)
\* called again and again for one song with one output directory.
MaxFetches == 4
LrcNames == <<"word-level", "line-level", "plain">>
NoFile == "absent"
\* what syncedlyrics.search finds: with enhanced=True a transcript with word
\* stamps, one without, or nothing; otherwise one without or nothing
ProviderAnswers == [enhanced : {"word", "line", "none"}, synced : {"line", "none"}]
Implementations == {"fetcher", "legacy"}
NotFetched ==
    [line_level |-> FALSE, output_file |-> "none", lyrics |-> "none", raised |-> "none"]

FetchInit ==
    /\ lrc_files = [name \in {LrcNames[i] : i \in 1..Len(LrcNames)} |-> NoFile]
    /\ providers \in [impl : Implementations, found : ProviderAnswers]
    /\ fetched = NotFetched
    /\ fetches = 0
    /\ FetchFrameIdle

\* _get_expected_lyrics_files and _find_existing_lyrics_file: the first of
\* word-level_, line-level_ and the bare name that exists and is not empty
find_existing_lyrics_file(files) ==
    IF \E i \in 1..Len(LrcNames) : files[LrcNames[i]] # NoFile
    THEN LrcNames[CHOOSE i \in 1..Len(LrcNames) :
                    /\ files[LrcNames[i]] # NoFile
                    /\ \A j \in 1..(i - 1) : files[LrcNames[j]] = NoFile]
    ELSE "none"

\* main.py: config.lyrics.prefer_word_level = args.word_level, and False
\* with --line-level-only; fallback_to_line_level is True
prefer_word_level(args) == args.word_level /\ ~args.line_level_only

\* LyricsFetcher.fetch_lyrics(song_info, working_dir), force_line_level None
fetch_lyrics_file(args) ==
    /\ providers.impl = "fetcher"
    /\ fetches < MaxFetches
    /\ fetches' = fetches + 1
    /\ LET existing_file == find_existing_lyrics_file(lrc_files)
           prefer_line_level == ~prefer_word_level(args)
           enhanced == IF prefer_line_level THEN "none" ELSE providers.found.enhanced
           lyrics_content == IF enhanced # "none" THEN enhanced ELSE providers.found.synced
           lyrics_type == IF enhanced # "none" THEN "word-level" ELSE "line-level"
       IN IF existing_file # "none"
          THEN /\ fetched' = [line_level |-> prefer_line_level, output_file |-> existing_file,
                              lyrics |-> lrc_files[existing_file], raised |-> "none"]
               /\ UNCHANGED lrc_files
          ELSE IF lyrics_content = "none"
          THEN /\ fetched' = [line_level |-> prefer_line_level, output_file |-> "none",
                              lyrics |-> "none", raised |-> "LyricsFetchError"]
               /\ UNCHANGED lrc_files
          ELSE /\ lrc_files' = [lrc_files EXCEPT ![lyrics_type] = lyrics_content]
               /\ fetched' = [line_level |-> prefer_line_level, output_file |-> lyrics_type,
                              lyrics |-> lyrics_content, raised |-> "none"]
    /\ UNCHANGED <<providers, fetchFrame>>

\* src/lyrics.py get_lyrics(artist, track, output_dir, line_level_only)
get_lyrics(line_level_only) ==
    /\ providers.impl = "legacy"
    /\ fetches < MaxFetches
    /\ fetches' = fetches + 1
    /\ LET found == providers.found
           \* the word stamps are stripped from what the enhanced search gave
           lrc_text == IF line_level_only
                  THEN IF found.synced # "none" THEN found.synced
                       ELSE IF found.enhanced # "none" THEN "line" ELSE "none"
                  ELSE IF found.enhanced # "none" THEN found.enhanced ELSE found.synced
           kind == IF line_level_only \/ lrc_text = "line" THEN "line-level" ELSE "word-level"
       IN IF lrc_text = "none"
          THEN /\ fetched' = [line_level |-> line_level_only, output_file |-> "none",
                              lyrics |-> "none", raised |-> "none"]
               /\ UNCHANGED lrc_files
          ELSE /\ lrc_files' = [lrc_files EXCEPT ![kind] = lrc_text]
               /\ fetched' = [line_level |-> line_level_only, output_file |-> kind,
                              lyrics |-> lrc_text, raised |-> "none"]
    /\ UNCHANGED <<providers, fetchFrame>>

FetchNext ==
    \/ \E args \in [word_level : BOOLEAN, line_level_only : BOOLEAN] : fetch_lyrics_file(args)
    \/ \E line_level_only \in BOOLEAN : get_lyrics(line_level_only)

SpecFetch == FetchInit /\ [][FetchNext]_vars

\* C25: line-level-only is honoured across runs.  Whenever line-level
\* lyrics were asked for and the fetch returned a lyrics file, the file
\* holds line-level lyrics, whatever files the fetches before it left in
\* the output directory.
C25_LineLevelHonoured ==
    (fetched.line_level /\ fetched.output_file # "none") => fetched.lyrics = "line"

\* ========================================================= audio download
\* One call of AudioDownloader.download_audio and the use KaraokeCreator
\* makes of what it returns.  The audio files of the output directory are
\* named after the template that wrote them: the custom file name, the safe
\* file name of the song, or the retry template %(title)s.
AudioNames == {"custom", "safe", "title"}
\* what ydl.download does: it writes the audio file of the template, returns
\* without an audio file, or raises
DownloadOutcomes == {"file", "no_file", "DownloadError", "FileNotFoundError", "OSError"}
NoFileFound == "None"
ProcessingResult(output_file) ==
    [type |-> "ProcessingResult", success |-> TRUE, output_file |-> output_file]
NoneResult == [type |-> "NoneType", success |-> FALSE, output_file |-> NoFileFound]
NoResultYet == [type |-> "nothing", success |-> FALSE, output_file |-> NoFileFound]

DownloadInit ==
    /\ audio_dir \in SUBSET AudioNames
    /\ dl \in [pc : {"call"}, custom_filename : BOOLEAN, simple_template : BOOLEAN,
               existing_files : {{}}, attempts : {0}, returned : {NoResultYet},
               raised : {"none"}]
    /\ DownloadFrameIdle

\* _get_expected_audio_file
get_expected_audio_file(custom_filename) == IF custom_filename THEN "custom" ELSE "safe"

\* _find_downloaded_file: the expected file, else the newest new audio file
find_downloaded_file(files, existing_files, custom_filename) ==
    IF get_expected_audio_file(custom_filename) \in files
    THEN get_expected_audio_file(custom_filename)
    ELSE IF files \ existing_files # {} THEN CHOOSE f \in files \ existing_files : TRUE
    ELSE NoFileFound

\* download_audio up to the first ydl.download: the file that is already
\* there is returned, else the names in the directory are remembered
download_audio ==
    /\ dl.pc = "call"
    /\ LET expected_file == get_expected_audio_file(dl.custom_filename) IN
       IF expected_file \in audio_dir
       THEN dl' = [dl EXCEPT !.pc = "returned", !.returned = ProcessingResult(expected_file)]
       ELSE dl' = [dl EXCEPT !.pc = "download", !.existing_files = audio_dir]
    /\ UNCHANGED <<audio_dir, downloadFrame>>

\* the first try block and its except clauses
first_download(outcome) ==
    /\ dl.pc = "download"
    /\ LET outtmpl == IF dl.simple_template THEN "title"
                      ELSE get_expected_audio_file(dl.custom_filename)
           files == IF outcome = "file" THEN audio_dir \cup {outtmpl} ELSE audio_dir
           output_file == find_downloaded_file(files, dl.existing_files, dl.custom_filename)
           attempted == [dl EXCEPT !.attempts = 1]
       IN /\ audio_dir' = files
          /\ IF outcome \in {"file", "no_file"}
             THEN IF output_file = NoFileFound
                  \* raise AudioDownloadError("Downloaded file not found after
                  \* download"), wrapped again by `except Exception`
                  THEN dl' = [attempted EXCEPT !.pc = "raised", !.raised = "AudioDownloadError"]
                  ELSE dl' = [attempted EXCEPT !.pc = "returned",
                                               !.returned = ProcessingResult(output_file)]
             ELSE IF outcome = "FileNotFoundError" /\ ~dl.simple_template
             THEN dl' = [attempted EXCEPT !.pc = "retry"]
             ELSE dl' = [attempted EXCEPT !.pc = "raised", !.raised = "AudioDownloadError"]
    /\ UNCHANGED downloadFrame

\* except FileNotFoundError: the download again with the template %(title)s.
\* When no file is found the inner try block ends without a return and so
\* do the except clause and the function
retry_download(outcome) ==
    /\ dl.pc = "retry"
    /\ LET files == IF outcome = "file" THEN audio_dir \cup {"title"} ELSE audio_dir
           output_file == find_downloaded_file(files, dl.existing_files, FALSE)
           attempted == [dl EXCEPT !.attempts = 2]
       IN /\ audio_dir' = files
          /\ IF outcome \in {"file", "no_file"}
             THEN IF output_file = NoFileFound
                  THEN dl' = [attempted EXCEPT !.pc = "returned", !.returned = NoneResult]
                  ELSE dl' = [attempted EXCEPT !.pc = "returned",
                                               !.returned = ProcessingResult(output_file)]
             ELSE dl' = [attempted EXCEPT !.pc = "raised", !.raised = "AudioDownloadError"]
    /\ UNCHANGED downloadFrame

\* KaraokeCreator: `if not download_result.success:` and
\* `audio_file = download_result.output_file`
use_download_result ==
    /\ dl.pc = "returned"
    /\ IF dl.returned = NoneResult
       THEN dl' = [dl EXCEPT !.pc = "pipeline_failed", !.raised = "AttributeError"]
       ELSE dl' = [dl EXCEPT !.pc = "pipeline_continues"]
    /\ UNCHANGED <<audio_dir, downloadFrame>>

DownloadNext ==
    \/ download_audio
    \/ \E outcome \in DownloadOutcomes : first_download(outcome)
    \/ \E outcome \in DownloadOutcomes : retry_download(outcome)
    \/ use_download_result

SpecDownload == DownloadInit /\ [][DownloadNext]_vars

\* C26: download_audio ends in one of two ways: it returns a
\* ProcessingResult whose output file exists, or it raises
\* AudioDownloadError.  It never returns without a result; it makes at most
\* two download attempts, the second only after a FileNotFoundError.
C26_ResultOrError ==
    /\ dl.pc = "returned" =>
          /\ dl.returned # NoneResult
          /\ dl.returned.output_file \in audio_dir
    /\ dl.pc = "raised" => dl.raised = "AudioDownloadError"
    /\ dl.attempts <= 2

\* =================================================== python -m karaoke run
\* main() of src/karaoke/__main__.py for the command `run`, with the
\* attributes the module karaoke.config has.
CacheFlags == {"ENABLE_AUDIO_CACHE", "ENABLE_STEMS_CACHE", "ENABLE_LYRICS_CACHE",
               "ENABLE_SUBTITLES_CACHE", "ENABLE_VIDEO_CACHE"}
NoSetting == "no such attribute"
\* getattr(config, name): config.py defines the five ENABLE_<area>_CACHE
\* flags and no attribute ENABLE_CACHE
HasAttr(cfg, name) == name \in DOMAIN cfg
NotStarted ==
    [pc |-> "parse_args", no_cache |-> FALSE, original_cache_setting |-> NoSetting,
     pipeline |-> "not run", consulted |-> {}, raised |-> "none", status |-> -1]

MainInit ==
    /\ settings \in [CacheFlags -> BOOLEAN]
    /\ cli \in [before : {settings}, collaborators_succeed : BOOLEAN, at : {NotStarted}]
    /\ MainFrameIdle

\* args = p.parse_args(argv)
parse_args(no_cache) ==
    /\ cli.at.pc = "parse_args"
    /\ cli' = [cli EXCEPT !.at.pc = "try", !.at.no_cache = no_cache]
    /\ UNCHANGED <<settings, mainFrame>>

\* `original_cache_setting = config.ENABLE_CACHE; config.ENABLE_CACHE = False`
\* inside the try block: reading an attribute the module does not have
\* raises AttributeError, which `except Exception` turns into sys.exit(1)
disable_cache ==
    /\ cli.at.pc = "try"
    /\ IF ~cli.at.no_cache
       THEN /\ cli' = [cli EXCEPT !.at.pc = "pipeline"]
            /\ UNCHANGED settings
       ELSE IF HasAttr(settings, "ENABLE_CACHE")
       THEN /\ cli' = [cli EXCEPT !.at.pc = "pipeline",
                                  !.at.original_cache_setting = settings["ENABLE_CACHE"]]
            /\ settings' = [settings EXCEPT !["ENABLE_CACHE"] = FALSE]
       ELSE /\ cli' = [cli EXCEPT !.at.pc = "exited", !.at.raised = "AttributeError",
                                  !.at.status = 1]
            /\ UNCHANGED settings
    /\ UNCHANGED mainFrame

\* pipeline.run(): the cache of an area is consulted and written when the
\* flag of the area is set; then the report, and the setting is put back
run_pipeline ==
    /\ cli.at.pc = "pipeline"
    /\ LET consulted == {f \in CacheFlags : settings[f]} IN
       IF cli.collaborators_succeed
       THEN /\ cli' = [cli EXCEPT !.at.pc = "exited", !.at.pipeline = "Completed",
                                  !.at.consulted = consulted, !.at.status = 0]
            /\ settings' = IF cli.at.no_cache
                           THEN [settings EXCEPT !["ENABLE_CACHE"] = cli.at.original_cache_setting]
                           ELSE settings
       ELSE /\ cli' = [cli EXCEPT !.at.pc = "exited", !.at.pipeline = "Failed",
                                  !.at.consulted = consulted, !.at.raised = "Exception",
                                  !.at.status = 1]
            /\ UNCHANGED settings
    /\ UNCHANGED mainFrame

MainNext ==
    \/ \E no_cache \in BOOLEAN : parse_args(no_cache)
    \/ disable_cache
    \/ run_pipeline

SpecMain == MainInit /\ [][MainNext]_vars

\* C27: `run --no-cache` disables caching for that run only.  When main()
\* has ended for a run with --no-cache, no cache was consulted or written,
\* the pipeline has completed if every collaborator succeeds, and the cache
\* settings are what they were before the run.
C27_NoCacheRun ==
    (cli.at.pc = "exited" /\ cli.at.no_cache) =>
        /\ cli.at.consulted = {}
        /\ cli.collaborators_succeed => (cli.at.pipeline = "Completed" /\ cli.at.status = 0)
        /\ settings = cli.before

\* ---------------------------------------------------------- cached lyrics
\* lyrics.fetch_lrc called again and again for the songs of Songs (two
\* artists, one track title) with the lyrics cache switched on or off.
MaxGets == 3

LyricsIndexFiles == {<<"lyrics", k>> : k \in KeysOf("lyrics")}
NotGot == [song |-> NoSong, hit |-> FALSE, ret |-> None, exc |-> NoExc]

HitInit ==
    /\ lyrics_cache \in BOOLEAN
    /\ lrc_dir = [p \in {LrcPath(t) : t \in Tracks} |-> Absent]
    /\ lrc_index = [f \in LyricsIndexFiles |-> NoEntry]
    /\ got = NotGot
    /\ gets = 0
    /\ HitFrameIdle

\* one call fetch_lrc(track, artist)
call_fetch_lrc(song, lf, sf, outcome) ==
    /\ gets < MaxGets
    /\ LET r == lyrics_fetch_lrc(lyrics_cache, lrc_index, lrc_dir, song, lf, sf, outcome) IN
        /\ lrc_index' = r.idx
        /\ lrc_dir' = r.dsk
        /\ got' = [song |-> song, hit |-> r.info.hit, ret |-> r.info.ret, exc |-> r.info.exc]
    /\ gets' = gets + 1
    /\ UNCHANGED <<lyrics_cache, hitFrame>>

HitNext ==
    \E song \in Songs, lf \in LookupFaults(lyrics_cache), sf \in StoreFaults(lyrics_cache),
       outcome \in Outcomes :
        call_fetch_lrc(song, lf, sf, outcome)

SpecHit == HitInit /\ [][HitNext]_vars

\* C28: whenever fetch_lrc is answered from the cache, the file at the
\* returned path holds the lyrics that were fetched for the looked-up
\* track and artist, never the lyrics another key's run wrote there last.
C28_HitIsOwnArtifact ==
    got.hit => lrc_dir[got.ret[1]] = LrcBytes(got.song)

\* ----------------------------------------------------- the reported videos
\* KaraokePipeline.run / run_streaming from the video step on.  The four
\* stages before it have returned: the audio file, its instrumental stem
\* and the .ass made from the lyrics the provider answered are on disk.
\* The audio file and the lyrics text do not determine the names: the same
\* file can be given with another artist, and the provider can answer the
\* same text for two artists.
MaxRenders == 2

VideoIndexFiles == {<<"videos", k>> : k \in KeysOf("videos")}
NotRendering ==
    [pc |-> "idle", mode |-> "none", song |-> NoSong, audio_path |-> NoPath,
     instrumental_path |-> NoPath, ass_path |-> NoPath, hits |-> 0, reported |-> None]

VideoInit ==
    /\ video_cache \in BOOLEAN
    /\ out_dir = [p \in Paths |-> Absent]
    /\ video_index = [f \in VideoIndexFiles |-> NoEntry]
    /\ vrun = NotRendering
    /\ vruns = 0
    /\ VideoFrameIdle

\* _resolve_audio, fetch_lrc, separate and lrc_to_ass have returned
reach_video_step(mode, song, audio, text) ==
    /\ vrun.pc \in {"idle", "returned", "failed"}
    /\ vruns < MaxRenders
    /\ LET audio_path == UploadPath(audio)
           instrumental_path == InstrumentalPath(audio_path)
           lrc_path == LrcPath(song[1])
           ass_path == AssPath(lrc_path)
       IN /\ out_dir' = [out_dir EXCEPT
                           ![audio_path] = AudioBytes(audio),
                           ![instrumental_path] = StemBytes(AudioBytes(audio), "inst"),
                           ![VocalsPath(audio_path)] = StemBytes(AudioBytes(audio), "voc"),
                           ![lrc_path] = LrcBytes(text),
                           ![ass_path] = AssBytes(LrcBytes(text))]
          /\ vrun' = [NotRendering EXCEPT !.pc = "karaoke_video", !.mode = mode, !.song = song,
                                           !.audio_path = audio_path,
                                           !.instrumental_path = instrumental_path,
                                           !.ass_path = ass_path]
    /\ vruns' = vruns + 1
    /\ UNCHANGED <<video_cache, video_index, videoFrame>>

\* k_video.build_video(audio_path=instrumental_path, ..., output_path=output_path):
\* the value it returns is dropped
render_karaoke_video(lf, sf, outcome) ==
    /\ vrun.pc = "karaoke_video"
    /\ LET r == video_build_video(video_cache, video_index, out_dir, vrun.instrumental_path,
                                  vrun.ass_path, OutputPath(vrun.song), lf, sf, outcome)
       IN /\ out_dir' = r.dsk
          /\ video_index' = r.idx
          /\ vrun' = IF r.info.exc # NoExc THEN [vrun EXCEPT !.pc = "failed"]
                     ELSE [vrun EXCEPT !.pc = "full_video",
                                       !.hits = IF r.info.hit THEN 1 ELSE 0]
    /\ UNCHANGED <<video_cache, vruns, videoFrame>>

\* k_video.build_video(audio_path=self.audio_path, ..., output_path=full_output_path),
\* then `return output_path, full_output_path` or the `done` event naming both
render_full_video(lf, sf, outcome) ==
    /\ vrun.pc = "full_video"
    /\ LET r == video_build_video(video_cache, video_index, out_dir, vrun.audio_path,
                                  vrun.ass_path, FullOutputPath(vrun.song), lf, sf, outcome)
       IN /\ out_dir' = r.dsk
          /\ video_index' = r.idx
          /\ vrun' = IF r.info.exc # NoExc THEN [vrun EXCEPT !.pc = "failed"]
                     ELSE [vrun EXCEPT !.pc = "returned",
                                       !.hits = vrun.hits + IF r.info.hit THEN 1 ELSE 0,
                                       !.reported = <<OutputPath(vrun.song),
                                                      FullOutputPath(vrun.song)>>]
    /\ UNCHANGED <<video_cache, vruns, videoFrame>>

VideoNext ==
    \/ \E mode \in Modes, song \in Songs, audio \in Songs, text \in Songs :
          reach_video_step(mode, song, audio, text)
    \/ \E lf \in LookupFaults(video_cache), sf \in StoreFaults(video_cache),
          outcome \in Outcomes : render_karaoke_video(lf, sf, outcome)
    \/ \E lf \in LookupFaults(video_cache), sf \in StoreFaults(video_cache),
          outcome \in Outcomes : render_full_video(lf, sf, outcome)

SpecVideo == VideoInit /\ [][VideoNext]_vars

\* C29: whenever run returns, or run_streaming emits `done`, both reported
\* video paths name files that exist, also when a build_video call was
\* answered from the video cache.
C29_ReportedVideosExist ==
    vrun.pc = "returned" =>
        /\ Exists(out_dir, vrun.reported[1])
        /\ Exists(out_dir, vrun.reported[2])

\* ------------------------------------------------------ python src/main.py
\* main() of src/main.py from `creator = KaraokeCreator(config)` on, with
\* KaraokeCreator.create_karaoke_from_url / create_karaoke_from_search and
\* _create_karaoke_from_song_info.  A step component returns a successful
\* result, returns an error result, or raises.
StepOutcomes == {"success", "error_result", "raise"}

\* ProcessingResult.error_result(error_message)
ErrorResult == [type |-> "ProcessingResult", success |-> FALSE, output_file |-> NoFileFound]
\* a plain dict with the key 'success': it has keys, not attributes
DictLiteral(output_file) == [type |-> "dict", success |-> TRUE, output_file |-> output_file]

\* self.processing_results[step] = value (the steps of one run are distinct)
StoreResult(results, step, value) == Append(results, [step |-> step, value |-> value])
StepsOf(results) == [i \in 1..Len(results) |-> results[i].step]

\* KaraokeCreator.get_processing_status: result.success, result.output_file,
\* result.processing_time and result.error_message of every recorded value
get_processing_status(results) ==
    IF \E i \in 1..Len(results) : results[i].value.type # "ProcessingResult"
    THEN [raised |-> "AttributeError", completed_steps |-> <<>>]
    ELSE [raised |-> "none", completed_steps |-> StepsOf(results)]

CreatorInit ==
    /\ processing_results = <<>>
    /\ kc \in [pc : {"song_info"}, from_url : BOOLEAN, lrc_content : BOOLEAN,
               skip_separation : BOOLEAN, result : {"none"}, completion_printed : {FALSE},
               completed_steps : {<<>>}, error_printed : {"none"}, status : {-1}]
    /\ CreatorFrameIdle

\* a step raised KaraokeCreationError (or an exception wrapped into one):
\* main's `except Exception` prints "Unexpected error" and returns 1
StepFailed == [kc EXCEPT !.pc = "exited", !.error_printed = "KaraokeCreationError",
                         !.status = 1]

\* What a step that records the component's result and checks its success
\* does with the outcome of the component
RunStep(clear, step, outcome, next) ==
    LET before == IF clear THEN <<>> ELSE processing_results IN
    CASE outcome = "success" ->
           /\ processing_results' = StoreResult(before, step, ProcessingResult(step))
           /\ kc' = [kc EXCEPT !.pc = next]
      [] outcome = "error_result" ->
           /\ processing_results' = StoreResult(before, step, ErrorResult)
           /\ kc' = StepFailed
      [] outcome = "raise" ->
           /\ processing_results' = before
           /\ kc' = StepFailed

\* Step 1 of create_karaoke_from_url / create_karaoke_from_search
song_info_step(outcome) ==
    /\ kc.pc = "song_info"
    /\ RunStep(FALSE, IF kc.from_url THEN "url_extraction" ELSE "search", outcome, "download")
    /\ UNCHANGED creatorFrame

\* self.processing_results.clear() and Step 2: download audio
download_step(outcome) ==
    /\ kc.pc = "download"
    /\ RunStep(TRUE, "download", outcome, "separation")
    /\ UNCHANGED creatorFrame

\* Step 3: separate audio, or record a mock result when separation is skipped
separation_step(outcome) ==
    /\ kc.pc = "separation"
    /\ RunStep(FALSE, "separation", IF kc.skip_separation THEN "success" ELSE outcome, "lyrics")
    /\ UNCHANGED creatorFrame

\* Step 4: write the user-supplied LRC text and record a dict, or fetch the lyrics
lyrics_step(outcome) ==
    /\ kc.pc = "lyrics"
    /\ IF kc.lrc_content
       THEN IF outcome = "raise"
            THEN /\ processing_results' = processing_results
                 /\ kc' = StepFailed
            ELSE /\ processing_results' =
                       StoreResult(processing_results, "lyrics", DictLiteral("custom.lrc"))
                 /\ kc' = [kc EXCEPT !.pc = "lyrics_processing"]
       ELSE RunStep(FALSE, "lyrics", outcome, "lyrics_processing")
    /\ UNCHANGED creatorFrame

\* Step 5: romanization (its exceptions are logged), then a dict is recorded
lyrics_processing_step ==
    /\ kc.pc = "lyrics_processing"
    /\ processing_results' =
           StoreResult(processing_results, "lyrics_processing", DictLiteral(NoFileFound))
    /\ kc' = [kc EXCEPT !.pc = "subtitles"]
    /\ UNCHANGED creatorFrame

\* Step 6: generate subtitles
subtitles_step(outcome) ==
    /\ kc.pc = "subtitles"
    /\ RunStep(FALSE, "subtitles", outcome, "video")
    /\ UNCHANGED creatorFrame

\* Step 7: render videos, then return ProcessingResult.success_result(...)
video_step(outcome) ==
    /\ kc.pc = "video"
    /\ RunStep(FALSE, "video", outcome, "report")
    /\ UNCHANGED creatorFrame

\* main: `if result.success:` prints the completion lines, calls
\* creator.get_processing_status() and prints the completed steps
report_success ==
    /\ kc.pc = "report"
    /\ LET status == get_processing_status(processing_results) IN
       kc' = IF status.raised # "none"
             THEN [kc EXCEPT !.pc = "exited", !.result = "success", !.completion_printed = TRUE,
                             !.error_printed = status.raised, !.status = 1]
             ELSE [kc EXCEPT !.pc = "exited", !.result = "success", !.completion_printed = TRUE,
                             !.completed_steps = status.completed_steps, !.status = 0]
    /\ UNCHANGED <<processing_results, creatorFrame>>

CreatorNext ==
    \/ \E outcome \in StepOutcomes : song_info_step(outcome)
    \/ \E outcome \in StepOutcomes : download_step(outcome)
    \/ \E outcome \in StepOutcomes : separation_step(outcome)
    \/ \E outcome \in StepOutcomes : lyrics_step(outcome)
    \/ lyrics_processing_step
    \/ \E outcome \in StepOutcomes : subtitles_step(outcome)
    \/ \E outcome \in StepOutcomes : video_step(outcome)
    \/ report_success

SpecCreator == CreatorInit /\ [][CreatorNext]_vars

\* C30: when every step of the pipeline succeeded, main() prints the
\* completion report with the completed steps and returns exit status 0;
\* every value recorded in processing_results is a step result exposing
\* success, output_file, processing_time and error_message.
C30_SuccessReported ==
    /\ (kc.pc = "exited" /\ kc.result = "success") =>
           /\ kc.status = 0
           /\ kc.completion_printed
           /\ kc.completed_steps # <<>>
    /\ \A i \in 1..Len(processing_results) :
           processing_results[i].value.type = "ProcessingResult"

=============================================================================
